---- MODULE Spec2Model ----
(***************************************************************************)
(* A model of paper_crawler: the HTTP retry client (fetch_with_retry), the *)
(* identifier paginator (get_all_pubmed_ids), the metadata batch fetcher   *)
(* (fetch_article_details), the abstract reconciler (fetch_abstracts) and  *)
(* the citation enrichment chain (enrich_articles_with_citations).         *)
(*                                                                         *)
(* Strings of the program are modelled as sequences of one-character       *)
(* tokens (<<>> is the empty string); identifiers (PMIDs) are TLA+ strings *)
(* ("" is the empty identifier).  Waiting times are integers in units of   *)
(* the base delay's unit.  The remote servers are the environment: every   *)
(* request's outcome is drawn from the outcomes the code distinguishes.    *)
(***************************************************************************)
EXTENDS Integers, Sequences, FiniteSets, TLC

VARIABLES
    \* ---- fetch_with_retry (one call in progress) ----
    fw_pc,        \* "idle" | "run" | "done"
    fw_max,       \* max_retries of the call
    fw_base,      \* base_delay of the call
    fw_attempt,   \* the loop variable `attempt`
    fw_last,      \* outcome of the last GET of the call ("none" before it)
    fw_gets,      \* number of GET requests the call has issued
    fw_sleeps,    \* the waits the call has slept, in order
    fw_result,    \* "none" (running) | "Response" | "None"
    \* ---- get_all_pubmed_ids ----
    ids_pc,            \* "idle" | "start" | "probe" | "loop" | "page" | "returned" | "raised"
    arg_max_articles,  \* the argument max_articles (-1: all)
    max_step,          \* the argument max_step
    srv_total,         \* number of identifiers the server holds for the query
    max_articles,      \* the local max_articles (the effective cap)
    total_count,       \* the local total_count
    num_batches,       \* the local num_batches
    batch_idx,         \* the loop variable batch_idx
    all_pmids,         \* the local all_pmids
    ids_ret,           \* the returned list (when ids_pc = "returned")
    page_reqs,         \* history: [retmax, retstart] of every page request
    ids_trouble,       \* history: "none" | "fetch" (a fetch_with_retry returned None)
                       \*          | "body" (a response body was short, incomplete or not JSON)
    \* ---- fetch_article_details ----
    det_pc,        \* "idle" | "loop" | "fetch" | "returned"
    pmids,         \* the argument pmids
    batch_size,    \* the argument batch_size
    det_idx,       \* the loop variable batch_idx
    articles,      \* the list of article records (built here, updated by the later stages)
    det_reqs,      \* history: the identifier list of every summary request
    det_resp,      \* history: per request, [ok, uids, kinds] of what came back
    det_sleeps,    \* history: number of time.sleep(config.DELAY) calls
    \* ---- fetch_abstracts (works on articles) ----
    abs_pc,             \* "idle" | "loop" | "xml" | "rec" | "text" | "returned"
    abs_batch_size,     \* the argument batch_size
    abs_idx,            \* the loop variable batch_idx
    abs_j,              \* position in `for article in batch_articles` (1-based)
    abstracts_by_pmid,  \* the local abstracts_by_pmid
    abs_in,             \* history: the argument articles as passed
    abs_xml_reqs,       \* history: the identifier list of every structured request
    abs_xml_res,        \* history: per structured request, [ok, parsed]
    abs_text_reqs,      \* history: the identifier of every plain-text request
    abs_text_res,       \* history: per plain-text request, [ok, abstract]
    \* ---- enrich_articles_with_citations (works on articles) ----
    cit_pc,          \* "idle" | "next" | "A" | "X" | "B" | "C" | "returned" | "raised"
    cit_i,           \* position in `for i, article in enumerate(articles)` (1-based)
    cit_attempt,     \* the loop variable `attempt` of the source being asked
    citation_count,  \* the local citation_count (NoCount: None)
    cit_in,          \* history: the argument articles as passed
    cit_rec,         \* history: the position of the article the next four are about
    cit_queried,     \* history: the sources asked for that article, in order
    cit_answered,    \* history: the source that returned a count ("none": none yet)
    cit_value,       \* history: the count that source returned (NoCount: none yet)
    cit_a_end,       \* history: the outcome of the last attempt of source A's call
                     \*          ("none": the call has not ended)
    cit_call,        \* history: the outcomes and sleeps of the last call of a source
    cit_dois,        \* history: the DOI in the url of the calls of source A and of
                     \*          Crossref for that article, in order
    \* ---- extract_abstracts_from_xml (one call) ----
    xml_pc,          \* "idle" | "call" | "returned"
    xml_content,     \* the argument xml_content
    xml_abstracts,   \* the returned dictionary
    \* ---- run_crawler ----
    run_pc,          \* "idle" | "ids" | "details" | "abstracts" | "returned" | "raised"
    run_stages,      \* history: the stages that have run to their end, in order
    run_output,      \* the output file: [written, articles]
    \* ---- filter_articles_by_keywords (one call) ----
    flt_pc,            \* "idle" | "call" | "returned"
    flt_articles,      \* the argument articles
    flt_keywords,      \* the argument keywords
    relevant_articles  \* the returned list

fwVars == <<fw_pc, fw_max, fw_base, fw_attempt, fw_last, fw_gets, fw_sleeps, fw_result>>

idsVars == <<ids_pc, arg_max_articles, max_step, srv_total, max_articles, total_count,
             num_batches, batch_idx, all_pmids, ids_ret, page_reqs, ids_trouble>>

detVars == <<det_pc, pmids, batch_size, det_idx, articles, det_reqs, det_resp, det_sleeps>>

absVars == <<abs_pc, abs_batch_size, abs_idx, abs_j, abstracts_by_pmid, abs_in,
             abs_xml_reqs, abs_xml_res, abs_text_reqs, abs_text_res>>

citVars == <<cit_pc, cit_i, cit_attempt, citation_count, cit_in, cit_rec, cit_queried,
             cit_answered, cit_value, cit_a_end, cit_call, cit_dois>>

xmlVars == <<xml_pc, xml_content, xml_abstracts>>

\* The state of the functions that are modelled on their own.
\* The state of the functions that call no modelled function but the
\* stages, or none at all.
runVars == <<run_pc, run_stages, run_output>>

fltVars == <<flt_pc, flt_articles, flt_keywords, relevant_articles>>

restVars == <<xmlVars, runVars, fltVars>>

vars == <<fwVars, idsVars, detVars, absVars, citVars, restVars>>

\* Everything but the state of fetch_with_retry.
callerVars == <<idsVars, detVars, absVars, citVars, restVars>>

(***************************************************************************)
(* Bounds of the model.                                                    *)
(***************************************************************************)
MaxRetriesArg == 4       \* fetch_with_retry is explored for max_retries in 0..MaxRetriesArg
MaxBaseDelay == 2        \* and for base_delay in 1..MaxBaseDelay
MaxCap == 4              \* get_all_pubmed_ids: max_articles in -1..MaxCap
MaxStep == 3             \* get_all_pubmed_ids: max_step in 1..MaxStep
MaxTotal == 4            \* get_all_pubmed_ids: the server holds 0..MaxTotal identifiers
MaxPmids == 3            \* fetch_article_details: 0..MaxPmids identifiers
MaxBatch == 2            \* fetch_article_details, fetch_abstracts: batch_size in 1..MaxBatch
MaxArticles == 2         \* fetch_abstracts: 0..MaxArticles records
MaxCited == 2            \* enrich_articles_with_citations: 0..MaxCited records
MaxSections == 3         \* extract_abstracts_from_xml: 0..MaxSections AbstractText elements
MaxBlanks == 1           \* DOI lookups: up to MaxBlanks blanks before, after and inside
                         \* the raw DOI string
MaxFiltered == 2         \* filter_articles_by_keywords: 0..MaxFiltered records
MaxRunTotal == 1         \* run_crawler: the server holds 0..MaxRunTotal identifiers,
                         \* and --max-articles is in -1..MaxRunTotal

(***************************************************************************)
(* Program constants.                                                      *)
(***************************************************************************)
DefaultMaxRetries == 5   \* fetch_with_retry(max_retries=5)
DefaultBaseDelay == 1    \* fetch_with_retry(base_delay=1.0)

Min(a, b) == IF a < b THEN a ELSE b

(***************************************************************************)
(* Strings: a program string is a sequence of one-character tokens.        *)
(***************************************************************************)

\* s[i..] (1-based), the empty string when i is past the end.
Drop(s, i) == SubSeq(s, i, Len(s))

\* s.startswith(p)
StartsWith(s, p) == Len(p) <= Len(s) /\ SubSeq(s, 1, Len(p)) = p

\* The whitespace of the alphabet.
IsSpace(c) == c = " "

\* s.split(): the maximal runs of non-whitespace characters, in order.
RECURSIVE SplitFrom(_, _, _)
SplitFrom(s, i, word) ==
    IF i > Len(s)
    THEN IF word = <<>> THEN <<>> ELSE <<word>>
    ELSE IF IsSpace(s[i])
         THEN (IF word = <<>> THEN <<>> ELSE <<word>>) \o SplitFrom(s, i + 1, <<>>)
         ELSE SplitFrom(s, i + 1, Append(word, s[i]))

Split(s) == SplitFrom(s, 1, <<>>)

\* sep.join(parts)
RECURSIVE Join(_, _)
Join(sep, parts) ==
    IF parts = <<>> THEN <<>>
    ELSE IF Len(parts) = 1 THEN parts[1]
    ELSE parts[1] \o sep \o Join(sep, Tail(parts))

\* s.replace(old, new) for a non-empty old: left to right, without overlap.
RECURSIVE Replace(_, _, _)
Replace(s, old, new) ==
    IF s = <<>> THEN <<>>
    ELSE IF StartsWith(s, old)
         THEN new \o Replace(Drop(s, Len(old) + 1), old, new)
         ELSE <<s[1]>> \o Replace(Tail(s), old, new)

\* The index of the first occurrence of the non-empty pat in s, 0 if none.
RECURSIVE FindFrom(_, _, _)
FindFrom(s, pat, i) ==
    IF i + Len(pat) - 1 > Len(s) THEN 0
    ELSE IF SubSeq(s, i, i + Len(pat) - 1) = pat THEN i
    ELSE FindFrom(s, pat, i + 1)

Find(s, pat) == FindFrom(s, pat, 1)

\* Whitespace of a text response: the blank and the line break.
IsBlank(c) == c = " " \/ c = "\n"

\* s.strip()
RECURSIVE LStrip(_)
LStrip(s) == IF s # <<>> /\ IsBlank(s[1]) THEN LStrip(Tail(s)) ELSE s

RECURSIVE RStrip(_)
RStrip(s) ==
    IF s # <<>> /\ IsBlank(s[Len(s)]) THEN RStrip(SubSeq(s, 1, Len(s) - 1)) ELSE s

Strip(s) == RStrip(LStrip(s))

\* s.split("\n"): the pieces between line breaks, empty ones included.
RECURSIVE LinesFrom(_, _, _)
LinesFrom(s, i, line) ==
    IF i > Len(s) THEN <<line>>
    ELSE IF s[i] = "\n" THEN <<line>> \o LinesFrom(s, i + 1, <<>>)
    ELSE LinesFrom(s, i + 1, Append(line, s[i]))

Lines(s) == LinesFrom(s, 1, <<>>)

\* str.lower, letter by letter.
LowerChar(c) ==
    CASE c = "A" -> "a" [] c = "B" -> "b" [] c = "J" -> "j" [] c = "M" -> "m"
      [] c = "T" -> "t" [] c = "S" -> "s" [] c = "D" -> "d" [] c = "O" -> "o"
      [] c = "I" -> "i" [] OTHER -> c

Lower(s) == [i \in 1..Len(s) |-> LowerChar(s[i])]

(***************************************************************************)
(* fetch_with_retry                                                        *)
(***************************************************************************)

\* What one requests.get + raise_for_status can do.
\*   ok      : a response whose status raise_for_status accepts
\*   conn    : requests.exceptions.ConnectionError
\*   timeout : requests.exceptions.Timeout
\*   h429    : HTTPError, status 429
\*   h5xx    : HTTPError, status >= 500
\*   h4xx    : HTTPError, any other status (4xx other than 429)
\*   exc     : any other exception
Outcomes == {"ok", "conn", "timeout", "h429", "h5xx", "h4xx", "exc"}

\* AttemptEffect with the `return response` of the try block lost: a
\* successful attempt falls through to the next iteration.
AttemptEffect_NoReturn(o, attempt, max_retries) ==
    CASE o = "h4xx" -> "fail"
      [] o \in {"ok", "h429", "h5xx"} -> "sleep"
      [] OTHER -> IF attempt < max_retries - 1 THEN "sleep" ELSE "fail"

\* AttemptEffect with every HTTPError retried alike: the status test of the
\* client-error branch is lost.
AttemptEffect_Retry4xx(o, attempt, max_retries) ==
    CASE o = "ok" -> "return"
      [] o \in {"h429", "h5xx", "h4xx"} -> "sleep"
      [] OTHER -> IF attempt < max_retries - 1 THEN "sleep" ELSE "fail"

\* The branch one attempt's outcome takes in the body of the for loop:
\* "return" (return response), "sleep" (time.sleep, then the next iteration)
\* or "fail" (return None).
AttemptEffect(o, attempt, max_retries) ==
    CASE o = "ok"      -> "return"
      [] o = "conn"    -> IF attempt < max_retries - 1 THEN "sleep" ELSE "fail"
      [] o = "timeout" -> IF attempt < max_retries - 1 THEN "sleep" ELSE "fail"
      [] o = "h429"    -> "sleep"
      [] o = "h5xx"    -> "sleep"
      [] o = "h4xx"    -> "fail"
      [] OTHER         -> IF attempt < max_retries - 1 THEN "sleep" ELSE "fail"

\* WaitTime with the factor 2 for every kind of failure.
WaitTime_AlwaysDoubling(o, base_delay, attempt) == base_delay * (2 ^ attempt)

\* wait_time of the branch that sleeps.
WaitTime(o, base_delay, attempt) ==
    IF o = "h429" THEN base_delay * (3 ^ attempt) ELSE base_delay * (2 ^ attempt)

\* The state in which a call of fetch_with_retry(url, params, m, b) starts.
FwStart(m, b) ==
    /\ fw_pc' = "run"
    /\ fw_max' = m
    /\ fw_base' = b
    /\ fw_attempt' = 0
    /\ fw_last' = "none"
    /\ fw_gets' = 0
    /\ fw_sleeps' = <<>>
    /\ fw_result' = "none"

\* No call in progress.
FwIdle ==
    /\ fw_pc = "idle"
    /\ fw_max = 0
    /\ fw_base = 0
    /\ fw_attempt = 0
    /\ fw_last = "none"
    /\ fw_gets = 0
    /\ fw_sleeps = <<>>
    /\ fw_result = "none"

\* The caller has taken the result: the call's frame is gone.
FwRelease ==
    /\ fw_pc' = "idle"
    /\ fw_max' = 0
    /\ fw_base' = 0
    /\ fw_attempt' = 0
    /\ fw_last' = "none"
    /\ fw_gets' = 0
    /\ fw_sleeps' = <<>>
    /\ fw_result' = "none"

\* One iteration of `for attempt in range(max_retries)`: the GET, its
\* outcome o, and the handler of that outcome.
FwAttempt(o) ==
    /\ fw_pc = "run"
    /\ fw_attempt < fw_max
    /\ fw_gets' = fw_gets + 1
    /\ fw_last' = o
    /\ UNCHANGED <<fw_max, fw_base>>
    /\ UNCHANGED callerVars
    /\ LET e == AttemptEffect(o, fw_attempt, fw_max) IN
         CASE e = "return" ->
                /\ fw_pc' = "done"
                /\ fw_result' = "Response"
                /\ UNCHANGED <<fw_attempt, fw_sleeps>>
           [] e = "fail" ->
                /\ fw_pc' = "done"
                /\ fw_result' = "None"
                /\ UNCHANGED <<fw_attempt, fw_sleeps>>
           [] OTHER ->
                /\ fw_sleeps' = Append(fw_sleeps, WaitTime(o, fw_base, fw_attempt))
                /\ fw_attempt' = fw_attempt + 1
                /\ UNCHANGED <<fw_pc, fw_result>>

\* range(max_retries) is exhausted: the `return None` after the loop.
FwLoopExit ==
    /\ fw_pc = "run"
    /\ fw_attempt >= fw_max
    /\ fw_pc' = "done"
    /\ fw_result' = "None"
    /\ UNCHANGED <<fw_max, fw_base, fw_attempt, fw_last, fw_gets, fw_sleeps>>
    /\ UNCHANGED callerVars

(***************************************************************************)
(* get_all_pubmed_ids                                                      *)
(***************************************************************************)

\* The i-th identifier of the server's date-sorted result list.
IdAt(i) == "p" \o ToString(i)

\* esearch with retmax and retstart: the identifiers at offsets
\* retstart .. retstart + retmax - 1 of the result list, as far as it goes.
ServerWindow(total, retmax, retstart) ==
    LET last == Min(retstart + retmax, total)
        n == IF last > retstart THEN last - retstart ELSE 0
    IN  [i \in 1..n |-> IdAt(retstart + i)]

\* What the body of a response fetch_pubmed_ids got can be:
\*   good       : JSON with esearchresult.count and esearchresult.idlist, the
\*                idlist being the whole window asked for
\*   short      : the same with an idlist shorter than the window holds
\*   incomplete : JSON without these fields (or an empty object)
\*   notjson    : not JSON: response.json() raises
ProbeBodies == {"good", "incomplete", "notjson"}
PageBodies == {"good", "short", "incomplete", "notjson"}

\* ToFetch without the cap: every page asks for max_step identifiers.
ToFetch_NoCap(step, remaining) == step

\* EffectiveCap without the sentinel: -1 is used as the cap.
EffectiveCap_NoSentinel(arg, total) == arg

\* PageUnusable without the test `not data`.
PageUnusable_NoNoneTest(result, body) == body = "incomplete"

\* `if max_articles == -1: max_articles = total_count`
EffectiveCap(arg, total) == IF arg = -1 THEN total ELSE arg

\* NumBatches that rounds down.
NumBatches_RoundsDown(total, cap, step) == Min(total, cap) \div step

\* num_batches
NumBatches(total, cap, step) == (Min(total, cap) + step - 1) \div step

\* RetStart that counts pages, not identifiers.
RetStart_CountsPages(idx, step) == idx

\* retstart of the page batch_idx
RetStart(idx, step) == idx * step

\* to_fetch
ToFetch(step, remaining) == Min(step, remaining)

\* `not data or "esearchresult" not in data or "idlist" not in ...`, for the
\* result of fetch_with_retry and the body of its response.
PageUnusable(result, body) == result = "None" \/ body = "incomplete"

IdsIdle ==
    /\ ids_pc = "idle"
    /\ arg_max_articles = 0
    /\ max_step = 0
    /\ srv_total = 0
    /\ max_articles = 0
    /\ total_count = 0
    /\ num_batches = 0
    /\ batch_idx = 0
    /\ all_pmids = <<>>
    /\ ids_ret = <<>>
    /\ page_reqs = <<>>
    /\ ids_trouble = "none"

\* `return <list>`
IdsReturn(list) ==
    /\ ids_pc' = "returned"
    /\ ids_ret' = list

\* The probe: fetch_pubmed_ids(query, retmax=1) calls fetch_with_retry.
IdsProbeCall ==
    /\ ids_pc = "start"
    /\ fw_pc = "idle"
    /\ UNCHANGED <<detVars, absVars, citVars, restVars>>
    /\ FwStart(DefaultMaxRetries, DefaultBaseDelay)
    /\ ids_pc' = "probe"
    /\ UNCHANGED <<arg_max_articles, max_step, srv_total, max_articles, total_count,
                   num_batches, batch_idx, all_pmids, ids_ret, page_reqs, ids_trouble>>

\* The probe's fetch_with_retry has returned: lines 112-149.
IdsProbeReturn ==
    /\ ids_pc = "probe"
    /\ fw_pc = "done"
    /\ UNCHANGED <<detVars, absVars, citVars, restVars>>
    /\ FwRelease
    /\ UNCHANGED <<arg_max_articles, max_step, srv_total, batch_idx, page_reqs>>
    /\ IF fw_result = "None"
       THEN /\ IdsReturn(<<>>)
            /\ ids_trouble' = "fetch"
            /\ UNCHANGED <<max_articles, total_count, num_batches, all_pmids>>
       ELSE \E body \in ProbeBodies :
              CASE body = "notjson" ->
                     /\ ids_pc' = "raised"
                     /\ ids_trouble' = "body"
                     /\ UNCHANGED <<max_articles, total_count, num_batches,
                                    all_pmids, ids_ret>>
                [] body = "incomplete" ->
                     /\ IdsReturn(<<>>)
                     /\ ids_trouble' = "body"
                     /\ UNCHANGED <<max_articles, total_count, num_batches, all_pmids>>
                [] OTHER ->
                     /\ total_count' = srv_total
                     /\ UNCHANGED ids_trouble
                     /\ IF srv_total = 0
                        THEN /\ IdsReturn(<<>>)
                             /\ UNCHANGED <<max_articles, num_batches, all_pmids>>
                        ELSE /\ max_articles' = EffectiveCap(arg_max_articles, srv_total)
                             /\ num_batches' =
                                  NumBatches(srv_total,
                                             EffectiveCap(arg_max_articles, srv_total),
                                             max_step)
                             /\ all_pmids' = <<>>
                             /\ ids_pc' = "loop"
                             /\ UNCHANGED ids_ret

\* The head of one iteration of `for batch_idx in range(num_batches)`, up to
\* the call of fetch_pubmed_ids (lines 155-165), or the end of the loop and
\* `return all_pmids`.
IdsPageCall ==
    /\ ids_pc = "loop"
    /\ fw_pc = "idle"
    /\ UNCHANGED <<detVars, absVars, citVars, restVars>>
    /\ UNCHANGED <<arg_max_articles, max_step, srv_total, max_articles, total_count,
                   num_batches, batch_idx, all_pmids, ids_trouble>>
    /\ LET remaining == max_articles - Len(all_pmids) IN
         IF batch_idx >= num_batches \/ remaining <= 0
         THEN /\ IdsReturn(all_pmids)
              /\ UNCHANGED <<fwVars, page_reqs>>
         ELSE /\ page_reqs' = Append(page_reqs,
                                 [retmax |-> ToFetch(max_step, remaining),
                                  retstart |-> RetStart(batch_idx, max_step)])
              /\ FwStart(DefaultMaxRetries, DefaultBaseDelay)
              /\ ids_pc' = "page"
              /\ UNCHANGED ids_ret

\* The rest of the iteration, with the identifier list of the page.
IdsTakePage(id_list, to_fetch) ==
    /\ all_pmids' = all_pmids \o id_list
    /\ IF Len(id_list) < to_fetch
       THEN /\ IdsReturn(all_pmids \o id_list)
            /\ UNCHANGED batch_idx
       ELSE /\ batch_idx' = batch_idx + 1
            /\ ids_pc' = "loop"
            /\ UNCHANGED ids_ret

\* The page's fetch_with_retry has returned: lines 112-114 and 166-181.
IdsPageReturn ==
    /\ ids_pc = "page"
    /\ fw_pc = "done"
    /\ UNCHANGED <<detVars, absVars, citVars, restVars>>
    /\ FwRelease
    /\ UNCHANGED <<arg_max_articles, max_step, srv_total, max_articles, total_count,
                   num_batches, page_reqs>>
    /\ LET req == page_reqs[Len(page_reqs)]
           window == ServerWindow(srv_total, req.retmax, req.retstart)
       IN
         \E body \in (IF fw_result = "None" THEN {"nothing"} ELSE PageBodies) :
           CASE body = "notjson" ->
                  /\ ids_pc' = "raised"
                  /\ ids_trouble' = "body"
                  /\ UNCHANGED <<batch_idx, all_pmids, ids_ret>>
             [] PageUnusable(fw_result, body) ->
                  /\ IdsReturn(all_pmids)
                  /\ ids_trouble' = (IF fw_result = "None" THEN "fetch" ELSE "body")
                  /\ UNCHANGED <<batch_idx, all_pmids>>
             [] fw_result = "None" ->
                  \* data is None and was not tested: data["esearchresult"] raises
                  /\ ids_pc' = "raised"
                  /\ ids_trouble' = "fetch"
                  /\ UNCHANGED <<batch_idx, all_pmids, ids_ret>>
             [] body = "short" ->
                  /\ ids_trouble' = "body"
                  /\ \E n \in 0..(Len(window) - 1) :
                       IdsTakePage(SubSeq(window, 1, n), req.retmax)
             [] OTHER ->
                  /\ UNCHANGED ids_trouble
                  /\ IdsTakePage(window, req.retmax)

(***************************************************************************)
(* fetch_article_details                                                   *)
(***************************************************************************)

\* TotalBatches that rounds down.
TotalBatches_RoundsDown(n, size) == n \div size

\* total_batches
TotalBatches(n, size) == (n + size - 1) \div size

\* list[idx*size:(idx+1)*size]
BatchSlice(list, idx, size) ==
    SubSeq(list, idx * size + 1, Min((idx + 1) * size, Len(list)))

\* The url of a record.
UrlOf(pmid) == IF pmid = "" THEN <<>> ELSE <<"https://pubmed.ncbi.nlm.nih.gov/", pmid, "/">>

DoiPrefix == <<"d", "o", "i", ":", " ">>

\* What result.get(pmid, {}) can be for an identifier of the response:
\*   full : an entry with a title, a journal, a date, an elocationid and authors
\*   bare : an entry without any of these (or no entry: the default {})
\*   bad  : an entry a field of which has not the type the mapping expects
\*          (a null title, an author that is no object): the mapping raises
EntryKinds == {"full", "bare", "bad"}

\* article_data with the defaults of its .get calls filled in.
ArticleData(kind) ==
    IF kind = "full"
    THEN [title |-> <<" ", "A", " ", " ", "B">>,
          fulljournalname |-> <<"J">>,
          pubdate |-> <<"2", "0", "2", "0">>,
          elocationid |-> DoiPrefix \o <<"1", "0", ".", "1">>,
          authors |-> << <<"J", " ", "S">>, <<>> >>]
    ELSE [title |-> <<>>,
          fulljournalname |-> <<>>,
          pubdate |-> <<>>,
          elocationid |-> <<>>,
          authors |-> <<>>]

\* CleanArticle that fills the abstract with the summary's title.
CleanArticle_TitleAsAbstract(pmid, d) ==
    [pmid |-> pmid,
     title |-> Join(<<" ">>, Split(d.title)),
     journal |-> d.fulljournalname,
     pub_date |-> d.pubdate,
     doi |-> Replace(d.elocationid, DoiPrefix, <<>>),
     url |-> UrlOf(pmid),
     authors |-> d.authors,
     abstract |-> d.title]

\* clean_article
CleanArticle(pmid, d) ==
    [pmid |-> pmid,
     title |-> Join(<<" ">>, Split(d.title)),
     journal |-> d.fulljournalname,
     pub_date |-> d.pubdate,
     doi |-> Replace(d.elocationid, DoiPrefix, <<>>),
     url |-> UrlOf(pmid),
     authors |-> d.authors,
     abstract |-> <<>>]

\* RecordsOf with the inner try/except lost around the mapping of one
\* identifier: the first entry that raises ends the batch's records.
RECURSIVE RecordsOf_BatchAborts(_, _)
RecordsOf_BatchAborts(uids, kinds) ==
    IF uids = <<>> \/ kinds[1] = "bad" THEN <<>>
    ELSE <<CleanArticle(uids[1], ArticleData(kinds[1]))>>
           \o RecordsOf_BatchAborts(Tail(uids), Tail(kinds))

\* `for pmid in uids`: the records appended for one response, kinds[i] being
\* the kind of the entry of uids[i].
RECURSIVE RecordsOf(_, _)
RecordsOf(uids, kinds) ==
    IF uids = <<>> THEN <<>>
    ELSE (IF kinds[1] = "bad"
          THEN <<>>
          ELSE <<CleanArticle(uids[1], ArticleData(kinds[1]))>>)
         \o RecordsOf(Tail(uids), Tail(kinds))

\* The sequence s reversed.
Reverse(s) == [i \in 1..Len(s) |-> s[Len(s) + 1 - i]]

\* The identifier lists (result.uids) a response to a request for `batch`
\* can carry: the batch, the batch in another order, a part of it, nothing.
UidLists(batch) == {batch, Reverse(batch), Tail(batch), <<>>}

DetIdle ==
    /\ det_pc = "idle"
    /\ pmids = <<>>
    /\ batch_size = 0
    /\ det_idx = 0
    /\ articles = <<>>
    /\ det_reqs = <<>>
    /\ det_resp = <<>>
    /\ det_sleeps = 0

\* One iteration of `for batch_idx in range(total_batches)` up to the call
\* of fetch_with_retry (lines 208-218); or `return []` for no identifiers
\* (lines 197-198); or the end of the loop and `return articles`.
DetBatchCall ==
    /\ det_pc = "loop"
    /\ fw_pc = "idle"
    /\ UNCHANGED <<idsVars, absVars, citVars, restVars>>
    /\ UNCHANGED <<pmids, batch_size, det_idx, articles, det_resp, det_sleeps>>
    /\ IF pmids = <<>> \/ det_idx >= TotalBatches(Len(pmids), batch_size)
       THEN /\ det_pc' = "returned"
            /\ UNCHANGED <<fwVars, det_reqs>>
       ELSE /\ det_reqs' = Append(det_reqs, BatchSlice(pmids, det_idx, batch_size))
            /\ FwStart(DefaultMaxRetries, DefaultBaseDelay)
            /\ det_pc' = "fetch"

\* The batch's fetch_with_retry returned None: warning and `continue`
\* (lines 219-222).
DetBatchFailed ==
    /\ det_pc = "fetch"
    /\ fw_pc = "done"
    /\ fw_result = "None"
    /\ FwRelease
    /\ UNCHANGED <<idsVars, absVars, citVars, restVars>>
    /\ det_resp' = Append(det_resp, [ok |-> FALSE, uids |-> <<>>, kinds |-> <<>>])
    /\ det_idx' = det_idx + 1
    /\ det_pc' = "loop"
    /\ UNCHANGED <<pmids, batch_size, articles, det_reqs, det_sleeps>>

\* The batch's response cannot be parsed (response.json() raises, or the
\* result is no object): the outer except, then the sleep (lines 255-260).
DetBatchUnparsed ==
    /\ det_pc = "fetch"
    /\ fw_pc = "done"
    /\ fw_result = "Response"
    /\ FwRelease
    /\ UNCHANGED <<idsVars, absVars, citVars, restVars>>
    /\ det_resp' = Append(det_resp, [ok |-> FALSE, uids |-> <<>>, kinds |-> <<>>])
    /\ det_sleeps' = det_sleeps + 1
    /\ det_idx' = det_idx + 1
    /\ det_pc' = "loop"
    /\ UNCHANGED <<pmids, batch_size, articles, det_reqs>>

\* The batch's response is parsed and mapped, then the sleep (lines 224-260).
DetBatchParsed ==
    /\ det_pc = "fetch"
    /\ fw_pc = "done"
    /\ fw_result = "Response"
    /\ FwRelease
    /\ UNCHANGED <<idsVars, absVars, citVars, restVars>>
    /\ \E uids \in UidLists(det_reqs[Len(det_reqs)]) :
       \E kinds \in [1..Len(uids) -> EntryKinds] :
          /\ articles' = articles \o RecordsOf(uids, kinds)
          /\ det_resp' = Append(det_resp, [ok |-> TRUE, uids |-> uids, kinds |-> kinds])
    /\ det_sleeps' = det_sleeps + 1
    /\ det_idx' = det_idx + 1
    /\ det_pc' = "loop"
    /\ UNCHANGED <<pmids, batch_size, det_reqs>>

(***************************************************************************)
(* fetch_abstracts                                                         *)
(***************************************************************************)

\* The AbstractText elements an article of the XML can hold, as
\* <<label, text>> pairs in document order:
\*   none      : no Abstract node
\*   plain     : one element without a label
\*   labelled  : two labelled elements
\*   emptytext : one labelled element without text
Sections(choice) ==
    CASE choice = "plain"     -> << [label |-> <<>>, text |-> <<"T">>] >>
      [] choice = "labelled"  -> << [label |-> <<"B", "g">>, text |-> <<"A">>],
                                    [label |-> <<"M", "t">>, text |-> <<"B">>] >>
      [] choice = "emptytext" -> << [label |-> <<"B", "g">>, text |-> <<>>] >>
      [] OTHER                -> <<>>

\* What the XML can hold for one requested identifier: no PubmedArticle
\* ("absent"), a PubmedArticle without a PMID element ("nopmid"), or a
\* PubmedArticle with the PMID and one of the section lists above.
XmlChoices == {"absent", "nopmid", "none", "plain", "labelled", "emptytext"}

\* The PubmedArticle elements of a document that holds, for the i-th
\* identifier of the batch, what choice[i] says.
RECURSIVE XmlArticles(_, _)
XmlArticles(batch, choice) ==
    IF batch = <<>> THEN <<>>
    ELSE (CASE choice[1] = "absent" -> <<>>
            [] choice[1] = "nopmid" ->
                 << [haspmid |-> FALSE, pmid |-> "", sections |-> Sections("plain")] >>
            [] OTHER ->
                 << [haspmid |-> TRUE, pmid |-> batch[1],
                     sections |-> Sections(choice[1])] >>)
         \o XmlArticles(Tail(batch), Tail(choice))

\* The documents an XML response to a request for `batch` can be: one that
\* does not parse, or the articles above.
XmlDocs(batch) ==
    {[wellformed |-> FALSE, articles |-> <<>>]}
    \cup {[wellformed |-> TRUE, articles |-> XmlArticles(batch, choice)] :
            choice \in [1..Len(batch) -> XmlChoices]}

\* AbstractParts that drops the labels.
RECURSIVE AbstractParts_NoLabels(_)
AbstractParts_NoLabels(sections) ==
    IF sections = <<>> THEN <<>>
    ELSE (IF sections[1].text # <<>> THEN <<sections[1].text>> ELSE <<>>)
         \o AbstractParts_NoLabels(Tail(sections))

\* abstract_parts after the loop over the AbstractText elements.
RECURSIVE AbstractParts(_)
AbstractParts(sections) ==
    IF sections = <<>> THEN <<>>
    ELSE (IF sections[1].label # <<>> /\ sections[1].text # <<>>
          THEN <<sections[1].label \o <<":", " ">> \o sections[1].text>>
          ELSE IF sections[1].text # <<>>
               THEN <<sections[1].text>>
               ELSE <<>>)
         \o AbstractParts(Tail(sections))

\* The abstract of one PubmedArticle (lines 293-318).
AbstractOf(sections) ==
    LET parts == AbstractParts(sections)
        parts2 == IF parts = <<>> /\ sections # <<>> /\ sections[1].text # <<>>
                  THEN <<sections[1].text>>
                  ELSE parts
    IN  Join(<<" ">>, parts2)

\* extract_abstracts_from_xml: the dictionary from PMIDs to abstracts (a
\* later article of the same PMID replaces an earlier one; a document that
\* does not parse gives the empty dictionary).
ExtractAbstractsFromXml(xml) ==
    IF ~xml.wellformed THEN <<>>
    ELSE LET arts == xml.articles
             keys == {arts[i].pmid : i \in {j \in 1..Len(arts) : arts[j].haspmid}}
             lastOf(p) == CHOOSE i \in 1..Len(arts) :
                            /\ arts[i].haspmid /\ arts[i].pmid = p
                            /\ \A j \in (i + 1)..Len(arts) :
                                 ~(arts[j].haspmid /\ arts[j].pmid = p)
         IN  [p \in keys |-> AbstractOf(arts[lastOf(p)].sections)]

\* The section markers extract_abstract_from_text cuts the abstract at.
TextTerms ==
    << <<"\n", "\n", "MeSH">>, <<"\n", "\n", "PMID">>, <<"\n", "\n", "Copyright">>,
       <<"\n", "\n", "Author">>, <<"\n", "\n", "20">> >>

\* `for term in [...]: if term in abstract_text: abstract_text = ...split(term, 1)[0]`
RECURSIVE CutAtTerms(_, _)
CutAtTerms(s, terms) ==
    IF terms = <<>> THEN s
    ELSE CutAtTerms(IF Find(s, terms[1]) > 0
                    THEN SubSeq(s, 1, Find(s, terms[1]) - 1)
                    ELSE s,
                    Tail(terms))

\* The stripped lines of s that are not empty.
RECURSIVE CleanedLines(_)
CleanedLines(lines) ==
    IF lines = <<>> THEN <<>>
    ELSE (IF Strip(lines[1]) # <<>> THEN <<Strip(lines[1])>> ELSE <<>>)
         \o CleanedLines(Tail(lines))

\* extract_abstract_from_text.  The literals the function looks for
\* ("Abstract", "MeSH", "PMID", ...) are single tokens of the text.
ExtractAbstractFromText(text) ==
    LET at == Find(text, <<"Abstract">>) IN
      IF at = 0 THEN <<>>
      ELSE Join(<<" ">>,
                CleanedLines(Lines(CutAtTerms(Strip(Drop(text, at + 1)), TextTerms))))

\* The bodies of a plain-text response: one with an abstract of two lines
\* between the marker and the PMID line, and one without the marker.
TextBodies ==
    { <<"1", ".", " ", "J", "\n", "\n", "Abstract", "\n", " ", "w", "1", " ", "\n",
        "w", "2", "\n", "\n", "PMID", ":", " ", "7">>,
      <<"1", ".", " ", "J", "\n", "\n", "PMID", ":", " ", "7">> }

\* [article["pmid"] for article in records]
PmidsOf(records) == [i \in 1..Len(records) |-> records[i].pmid]

AbsIdle ==
    /\ abs_pc = "idle"
    /\ abs_batch_size = 0
    /\ abs_idx = 0
    /\ abs_j = 0
    /\ abstracts_by_pmid = <<>>
    /\ abs_in = <<>>
    /\ abs_xml_reqs = <<>>
    /\ abs_xml_res = <<>>
    /\ abs_text_reqs = <<>>
    /\ abs_text_res = <<>>

\* batch_articles of the current batch, as indices into articles.
AbsBatchFirst == abs_idx * abs_batch_size

AbsBatchLen == Len(BatchSlice(articles, abs_idx, abs_batch_size))

\* One iteration of `for batch_idx in range(total_batches)` up to the
\* structured request (lines 381-394), or the end of the loop.
AbsBatchCall ==
    /\ abs_pc = "loop"
    /\ fw_pc = "idle"
    /\ UNCHANGED <<restVars, citVars, idsVars, pmids, batch_size, det_idx, det_pc, articles, det_reqs,
                   det_resp, det_sleeps>>
    /\ UNCHANGED <<abs_batch_size, abs_idx, abs_j, abstracts_by_pmid, abs_in,
                   abs_xml_res, abs_text_reqs, abs_text_res>>
    /\ IF abs_idx >= TotalBatches(Len(articles), abs_batch_size)
       THEN /\ abs_pc' = "returned"
            /\ UNCHANGED <<fwVars, abs_xml_reqs>>
       ELSE /\ abs_xml_reqs' =
                 Append(abs_xml_reqs,
                        PmidsOf(BatchSlice(articles, abs_idx, abs_batch_size)))
            /\ FwStart(DefaultMaxRetries, DefaultBaseDelay)
            /\ abs_pc' = "xml"

\* AbsXmlFailed with a fallback: the records of a batch whose structured
\* request returned None go through the per-record plain-text requests.
AbsXmlFailed_Fallback ==
    /\ abs_pc = "xml"
    /\ fw_pc = "done"
    /\ fw_result = "None"
    /\ FwRelease
    /\ abs_xml_res' = Append(abs_xml_res, [ok |-> FALSE, parsed |-> <<>>])
    /\ abstracts_by_pmid' = <<>>
    /\ abs_j' = 1
    /\ abs_pc' = "rec"
    /\ UNCHANGED <<idsVars, detVars, citVars, restVars>>
    /\ UNCHANGED <<abs_batch_size, abs_idx, abs_in, abs_xml_reqs, abs_text_reqs,
                   abs_text_res>>

\* The structured request returned None: the warning, then the next batch
\* (lines 426-433).
AbsXmlFailed ==
    /\ abs_pc = "xml"
    /\ fw_pc = "done"
    /\ fw_result = "None"
    /\ FwRelease
    /\ abs_xml_res' = Append(abs_xml_res, [ok |-> FALSE, parsed |-> <<>>])
    /\ abs_idx' = abs_idx + 1
    /\ abs_pc' = "loop"
    /\ UNCHANGED <<idsVars, detVars, citVars, restVars>>
    /\ UNCHANGED <<abs_batch_size, abs_j, abstracts_by_pmid, abs_in, abs_xml_reqs,
                   abs_text_reqs, abs_text_res>>

\* The structured request returned a response: it is parsed (lines 395-399).
AbsXmlParsed ==
    /\ abs_pc = "xml"
    /\ fw_pc = "done"
    /\ fw_result = "Response"
    /\ FwRelease
    /\ \E xml \in XmlDocs(abs_xml_reqs[Len(abs_xml_reqs)]) :
         /\ abstracts_by_pmid' = ExtractAbstractsFromXml(xml)
         /\ abs_xml_res' =
              Append(abs_xml_res, [ok |-> TRUE, parsed |-> ExtractAbstractsFromXml(xml)])
    /\ abs_j' = 1
    /\ abs_pc' = "rec"
    /\ UNCHANGED <<idsVars, detVars, citVars, restVars>>
    /\ UNCHANGED <<abs_batch_size, abs_idx, abs_in, abs_xml_reqs, abs_text_reqs,
                   abs_text_res>>

\* HasXmlAbstract with the truth test of the text lost: `pmid in abstracts_by_pmid`.
HasXmlAbstract_KeyOnly(by_pmid, pmid) == pmid \in DOMAIN by_pmid

\* `pmid in abstracts_by_pmid and abstracts_by_pmid[pmid]`
HasXmlAbstract(by_pmid, pmid) == pmid \in DOMAIN by_pmid /\ by_pmid[pmid] # <<>>

\* AbsRecord with a short-circuit: a record whose abstract is not empty is
\* passed over, without a plain-text request and without an assignment.
AbsRecord_SkipsFilled ==
    /\ abs_pc = "rec"
    /\ fw_pc = "idle"
    /\ UNCHANGED <<restVars, citVars, idsVars, det_pc, pmids, batch_size, det_idx, det_reqs, det_resp,
                   det_sleeps>>
    /\ UNCHANGED <<abs_batch_size, abs_in, abs_xml_reqs, abs_xml_res, abs_text_res>>
    /\ IF abs_j > AbsBatchLen
       THEN /\ abs_idx' = abs_idx + 1
            /\ abs_pc' = "loop"
            /\ UNCHANGED <<fwVars, articles, abs_j, abstracts_by_pmid, abs_text_reqs>>
       ELSE LET k == AbsBatchFirst + abs_j
                pmid == articles[k].pmid
            IN  IF articles[k].abstract # <<>>
                THEN /\ abs_j' = abs_j + 1
                     /\ UNCHANGED <<fwVars, articles, abs_pc, abs_idx, abstracts_by_pmid,
                                    abs_text_reqs>>
                ELSE IF HasXmlAbstract(abstracts_by_pmid, pmid)
                THEN /\ articles' =
                          [articles EXCEPT ![k].abstract = abstracts_by_pmid[pmid]]
                     /\ abs_j' = abs_j + 1
                     /\ UNCHANGED <<fwVars, abs_pc, abs_idx, abstracts_by_pmid,
                                    abs_text_reqs>>
                ELSE /\ abs_text_reqs' = Append(abs_text_reqs, pmid)
                     /\ FwStart(DefaultMaxRetries, DefaultBaseDelay)
                     /\ abs_pc' = "text"
                     /\ UNCHANGED <<articles, abs_idx, abs_j, abstracts_by_pmid>>

\* One iteration of `for article in batch_articles` up to `continue` or to
\* the plain-text request (lines 402-416), or the end of that loop and of
\* the batch (lines 429-433).
AbsRecord ==
    /\ abs_pc = "rec"
    /\ fw_pc = "idle"
    /\ UNCHANGED <<restVars, citVars, idsVars, det_pc, pmids, batch_size, det_idx, det_reqs, det_resp,
                   det_sleeps>>
    /\ UNCHANGED <<abs_batch_size, abs_in, abs_xml_reqs, abs_xml_res, abs_text_res>>
    /\ IF abs_j > AbsBatchLen
       THEN /\ abs_idx' = abs_idx + 1
            /\ abs_pc' = "loop"
            /\ UNCHANGED <<fwVars, articles, abs_j, abstracts_by_pmid, abs_text_reqs>>
       ELSE LET k == AbsBatchFirst + abs_j
                pmid == articles[k].pmid
            IN  IF HasXmlAbstract(abstracts_by_pmid, pmid)
                THEN /\ articles' =
                          [articles EXCEPT ![k].abstract = abstracts_by_pmid[pmid]]
                     /\ abs_j' = abs_j + 1
                     /\ UNCHANGED <<fwVars, abs_pc, abs_idx, abstracts_by_pmid,
                                    abs_text_reqs>>
                ELSE /\ abs_text_reqs' = Append(abs_text_reqs, pmid)
                     /\ FwStart(DefaultMaxRetries, DefaultBaseDelay)
                     /\ abs_pc' = "text"
                     /\ UNCHANGED <<articles, abs_idx, abs_j, abstracts_by_pmid>>

\* The plain-text request of a record has returned (lines 417-425).
AbsTextReturn ==
    /\ abs_pc = "text"
    /\ fw_pc = "done"
    /\ FwRelease
    /\ LET k == AbsBatchFirst + abs_j IN
         IF fw_result = "None"
         THEN /\ abs_text_res' = Append(abs_text_res, [ok |-> FALSE, abstract |-> <<>>])
              /\ UNCHANGED articles
         ELSE \E body \in TextBodies :
                /\ articles' =
                     [articles EXCEPT ![k].abstract = ExtractAbstractFromText(body)]
                /\ abs_text_res' =
                     Append(abs_text_res,
                            [ok |-> TRUE, abstract |-> ExtractAbstractFromText(body)])
    /\ abs_j' = abs_j + 1
    /\ abs_pc' = "rec"
    /\ UNCHANGED <<restVars, citVars, idsVars, det_pc, pmids, batch_size, det_idx, det_reqs, det_resp,
                   det_sleeps>>
    /\ UNCHANGED <<abs_batch_size, abs_idx, abstracts_by_pmid, abs_in, abs_xml_reqs,
                   abs_xml_res, abs_text_reqs>>

(***************************************************************************)
(* enrich_articles_with_citations and the four citation sources            *)
(*   A : fetch_citation_count_by_doi          (Semantic Scholar, by DOI)   *)
(*   X : fetch_citation_count_from_crossref   (Crossref, A's fallback)     *)
(*   B : fetch_citation_count_by_pmid         (iCite, by PMID)             *)
(*   C : fetch_citation_count_by_title_authors (Semantic Scholar search)   *)
(***************************************************************************)

\* `citation_count = None`, and the None a source returns.
NoCount == -1

\* max_retries of the four sources.
MaxRetriesA == 3
MaxRetriesX == 2
MaxRetriesB == 3
MaxRetriesC == 2

\* MaxRetriesOf with the default of fetch_with_retry for every source.
MaxRetriesOf_Five(src) == DefaultMaxRetries

MaxRetriesOf(src) ==
    CASE src = "A" -> MaxRetriesA
      [] src = "X" -> MaxRetriesX
      [] src = "B" -> MaxRetriesB
      [] OTHER     -> MaxRetriesC

\* What one requests.get of a citation source, and the reading of its
\* body, can do:
\*   ok      : status 200 and a body that holds the count field
\*   nofield : status 200 and a body without the count field
\*   h429    : status 429
\*   other   : any other status
\*   exc     : an exception (connection error, timeout, a body that is not JSON)
CiteOutcomes == {"ok", "nofield", "h429", "other", "exc"}

\* The title search has one more: status 200 and an empty list of hits
\* (`len(data["data"]) > 0` fails, line 220).
SearchOutcomes == CiteOutcomes \cup {"nohits"}

\* CiteEffect that takes a 429 for a failure of the call.
CiteEffect_RateLimitGivesUp(o, attempt, max_retries) ==
    CASE o \in {"ok", "nofield", "nohits"} -> "answer"
      [] o \in {"h429", "other"} -> "giveup"
      [] OTHER -> IF attempt < max_retries - 1 THEN "sleep" ELSE "giveup"

\* The branch one attempt's outcome takes in the loop of a source:
\* "answer" (return a count), "sleep" (time.sleep, then the next iteration)
\* or "giveup" (return None, or for source A the Crossref fallback).
CiteEffect(o, attempt, max_retries) ==
    CASE o \in {"ok", "nofield", "nohits"} -> "answer"
      [] o = "h429"              -> "sleep"
      [] o = "other"             -> "giveup"
      [] OTHER -> IF attempt < max_retries - 1 THEN "sleep" ELSE "giveup"

\* Whether authors[0].split()[-1] raises IndexError: the first author's
\* name holds no word.
FirstAuthorRaises(authors) == authors # <<>> /\ Split(authors[1]) = <<>>

\* first_author
FirstAuthor(authors) ==
    IF authors = <<>> THEN <<>> ELSE Split(authors[1])[Len(Split(authors[1]))]

\* NextStop that asks the PMID source whatever the DOI source returned.
NextStop_AlwaysPmid(a, after, count) ==
    IF after = "start" /\ a.doi # <<>> THEN "A"
    ELSE IF after \in {"start", "doi"} /\ a.pmid # "" THEN "B"
    ELSE IF after # "title" /\ count = NoCount /\ a.title # <<>>
         THEN (IF FirstAuthorRaises(a.authors) THEN "raise" ELSE "C")
         ELSE "set"

\* Where the body of the loop over the articles goes next for the article
\* a (lines 262-277), `after` the start of the iteration, the DOI source or
\* the PMID source, with citation_count = count: to the first request of
\* source "A", "B" or "C", to the IndexError of the title search ("raise"),
\* or to the setting of the two fields ("set").  The title search returns
\* None at once for an empty title.
NextStop(a, after, count) ==
    IF after = "start" /\ a.doi # <<>> THEN "A"
    ELSE IF after \in {"start", "doi"} /\ count = NoCount /\ a.pmid # "" THEN "B"
    ELSE IF after # "title" /\ count = NoCount /\ a.title # <<>>
         THEN (IF FirstAuthorRaises(a.authors) THEN "raise" ELSE "C")
         ELSE "set"

\* CitationSource that tests the truth of citation_count, which takes a
\* count of 0 for no count.
CitationSource_ZeroIsNone(a, count) ==
    IF a.doi # <<>> /\ count \notin {NoCount, 0} THEN "semantic_scholar"
    ELSE IF a.pmid # "" /\ count \notin {NoCount, 0} THEN "icite"
    ELSE IF count \notin {NoCount, 0} THEN "title_search"
    ELSE "none"

\* citation_source as lines 284-291 set it.
CitationSource(a, count) ==
    IF a.doi # <<>> /\ count # NoCount THEN "semantic_scholar"
    ELSE IF a.pmid # "" /\ count # NoCount THEN "icite"
    ELSE IF count # NoCount THEN "title_search"
    ELSE "none"

\* citation_count as lines 278-281 set it.
CitationCount(count) == IF count # NoCount THEN count ELSE 0

\* SetCitation that also rewrites the record's doi in its cleaned form.
SetCitation_CleansDoi(a, count) ==
    [citation_count |-> CitationCount(count),
     citation_source |-> CitationSource(a, count)] @@ [a EXCEPT !.doi = <<>>]

\* The article with the two fields set.
SetCitation(a, count) ==
    [citation_count |-> CitationCount(count),
     citation_source |-> CitationSource(a, count)] @@ a

\* CleanDoi that tests the prefix as it is written.
CleanDoi_CaseSensitive(doi) ==
    IF StartsWith(Strip(doi), <<"d", "o", "i", ":">>)
    THEN Strip(Drop(Strip(doi), 5))
    ELSE Strip(doi)

\* The doi the url of a DOI lookup is built from (lines 30-32 and 89-91).
CleanDoi(doi) ==
    IF StartsWith(Lower(Strip(doi)), <<"d", "o", "i", ":">>)
    THEN Strip(Drop(Strip(doi), 5))
    ELSE Strip(doi)

CitIdle ==
    /\ cit_pc = "idle"
    /\ cit_i = 0
    /\ cit_attempt = 0
    /\ citation_count = NoCount
    /\ cit_in = <<>>
    /\ cit_rec = 0
    /\ cit_queried = <<>>
    /\ cit_answered = "none"
    /\ cit_value = NoCount
    /\ cit_a_end = "none"
    /\ cit_call = <<>>
    /\ cit_dois = <<>>

\* The loop body moves on to `stop` with citation_count = count: to the
\* first request of a source, to the IndexError, or through lines 277-296
\* (the two fields are set, the delays slept) to the next article.
CitGoto(stop, count, queried, log) ==
    /\ citation_count' = count
    /\ CASE stop \in {"A", "B", "C"} ->
              /\ cit_pc' = stop
              /\ cit_attempt' = 0
              /\ cit_call' = <<>>
              /\ cit_queried' = Append(queried, stop)
              /\ UNCHANGED <<articles, cit_i>>
         [] stop = "raise" ->
              /\ cit_pc' = "raised"
              /\ cit_call' = log
              /\ cit_queried' = queried
              /\ UNCHANGED <<articles, cit_i, cit_attempt>>
         [] OTHER ->
              /\ articles' = [articles EXCEPT
                                ![cit_i] = SetCitation(articles[cit_i], count)]
              /\ cit_i' = cit_i + 1
              /\ cit_pc' = "next"
              /\ cit_call' = log
              /\ cit_queried' = queried
              /\ UNCHANGED cit_attempt

\* The head of one iteration of `for i, article in enumerate(articles)`
\* up to the first request of the first source asked (lines 259-264), or
\* the whole iteration when no request is made, or the end of the loop.
CitNext ==
    /\ cit_pc = "next"
    /\ UNCHANGED <<fwVars, idsVars, absVars, restVars>>
    /\ UNCHANGED <<det_pc, pmids, batch_size, det_idx, det_reqs, det_resp, det_sleeps>>
    /\ UNCHANGED cit_in
    /\ IF cit_i > Len(articles)
       THEN /\ cit_pc' = "returned"
            /\ UNCHANGED <<articles, cit_i, cit_attempt, citation_count, cit_rec,
                           cit_queried, cit_answered, cit_value, cit_a_end, cit_call,
                           cit_dois>>
       ELSE /\ cit_rec' = cit_i
            /\ cit_dois' = (IF NextStop(articles[cit_i], "start", NoCount) = "A"
                            THEN <<CleanDoi(articles[cit_i].doi)>>
                            ELSE <<>>)
            /\ cit_answered' = "none"
            /\ cit_value' = NoCount
            /\ cit_a_end' = "none"
            /\ CitGoto(NextStop(articles[cit_i], "start", NoCount), NoCount, <<>>, <<>>)

\* The counts a source can report.
Counts == {0, 7}

\* The values the count field of a 200 body can hold: a count, or null.
FieldValues == Counts \cup {NoCount}

\* The value a 200 answer gives: the count field, or 0 without it.
AnswerOf(o, c) == IF o = "ok" THEN c ELSE 0

\* Slept for a loop that goes to its next iteration without sleeping.
Slept_NoSleep(log, o) == Append(log, o)

\* The log of a call after an attempt with outcome o that was followed by
\* time.sleep(wait_time).
Slept(log, o) == log \o <<o, "sleep">>

\* One iteration of the retry loop of the source src: the GET, its outcome
\* o (with the count c a 200 answer holds) and what follows, up to the next
\* GET.  `after` is the place of the source in the chain.
CitAttempt(src, after, o, c) ==
    /\ cit_pc = src
    /\ UNCHANGED <<fwVars, idsVars, absVars, restVars>>
    /\ UNCHANGED <<det_pc, pmids, batch_size, det_idx, det_reqs, det_resp, det_sleeps>>
    /\ UNCHANGED <<cit_in, cit_rec>>
    /\ cit_dois' = (IF src = "A" /\ CiteEffect(o, cit_attempt, MaxRetriesOf(src)) = "giveup"
                    THEN Append(cit_dois, CleanDoi(cit_dois[Len(cit_dois)]))
                    ELSE cit_dois)
    /\ LET e == CiteEffect(o, cit_attempt, MaxRetriesOf(src))
           a == articles[cit_i]
       IN
         CASE e = "answer" ->
                /\ cit_answered' = (IF AnswerOf(o, c) = NoCount THEN cit_answered ELSE src)
                /\ cit_value' = AnswerOf(o, c)
                /\ cit_a_end' = (IF src = "A" THEN "ok" ELSE cit_a_end)
                /\ CitGoto(NextStop(a, after, AnswerOf(o, c)), AnswerOf(o, c),
                           cit_queried, Append(cit_call, o))
           [] e = "giveup" /\ src = "A" ->
                \* the Crossref fallback (lines 58 and 66)
                /\ cit_a_end' = o
                /\ cit_pc' = "X"
                /\ cit_attempt' = 0
                /\ cit_call' = <<>>
                /\ cit_queried' = Append(cit_queried, "X")
                /\ UNCHANGED <<articles, cit_i, citation_count, cit_answered, cit_value>>
           [] e = "giveup" ->
                /\ UNCHANGED <<cit_answered, cit_value, cit_a_end>>
                /\ CitGoto(NextStop(a, after, NoCount), NoCount,
                           cit_queried, Append(cit_call, o))
           [] cit_attempt + 1 < MaxRetriesOf(src) ->
                \* sleep, then the next iteration
                /\ cit_attempt' = cit_attempt + 1
                /\ cit_call' = Slept(cit_call, o)
                /\ UNCHANGED <<articles, cit_i, cit_pc, citation_count, cit_queried,
                               cit_answered, cit_value, cit_a_end>>
           [] OTHER ->
                \* sleep, then the loop is exhausted: `return None`
                /\ UNCHANGED <<cit_answered, cit_value>>
                /\ cit_a_end' = (IF src = "A" THEN o ELSE cit_a_end)
                /\ CitGoto(NextStop(a, after, NoCount), NoCount,
                           cit_queried, Slept(cit_call, o))

CitAttemptA == \E o \in CiteOutcomes, c \in FieldValues : CitAttempt("A", "doi", o, c)

CitAttemptX == \E o \in CiteOutcomes, c \in FieldValues : CitAttempt("X", "doi", o, c)

CitAttemptB == \E o \in CiteOutcomes, c \in FieldValues : CitAttempt("B", "pmid", o, c)

CitAttemptC == \E o \in SearchOutcomes, c \in FieldValues : CitAttempt("C", "title", o, c)

(***************************************************************************)
(* extract_abstracts_from_xml, called on its own                           *)
(***************************************************************************)
XmlIdle ==
    /\ xml_pc = "idle"
    /\ xml_content = <<>>
    /\ xml_abstracts = <<>>

\* The whole call: lines 275-323.
XmlExtract ==
    /\ xml_pc = "call"
    /\ xml_pc' = "returned"
    /\ xml_abstracts' = ExtractAbstractsFromXml(xml_content)
    /\ UNCHANGED xml_content
    /\ UNCHANGED <<fwVars, idsVars, detVars, absVars, citVars, runVars, fltVars>>

(***************************************************************************)
(* run_crawler (cli.py) and filter_articles_by_keywords                    *)
(***************************************************************************)

\* config.BATCH_SIZE and config.ABSTRACT_BATCH_SIZE
BatchSize == 100

AbstractBatchSize == 10

\* config.KEYWORDS, written over the letters of the model's texts: two
\* keywords, of which the first occurs in the abstract a plain-text response
\* gives and the second (in another case) in a labelled abstract of the XML.
Keywords == << <<"w", "1">>, <<"m", "T">> >>

\* contains_any_keyword
ContainsAnyKeyword(text, keywords) ==
    \E k \in 1..Len(keywords) : Find(Lower(text), Lower(keywords[k])) > 0

\* filter_articles_by_keywords
RECURSIVE FilterArticlesByKeywords(_, _)
FilterArticlesByKeywords(records, keywords) ==
    IF records = <<>> THEN <<>>
    ELSE (IF ContainsAnyKeyword(records[1].title \o <<" ">> \o records[1].abstract, keywords)
          THEN <<records[1]>>
          ELSE <<>>)
         \o FilterArticlesByKeywords(Tail(records), keywords)

RunIdle ==
    /\ run_pc = "idle"
    /\ run_stages = <<>>
    /\ run_output = [written |-> FALSE, articles |-> <<>>]

FltIdle ==
    /\ flt_pc = "idle"
    /\ flt_articles = <<>>
    /\ flt_keywords = <<>>
    /\ relevant_articles = <<>>

\* The whole call of filter_articles_by_keywords: lines 35-45.
FltFilter ==
    /\ flt_pc = "call"
    /\ flt_pc' = "returned"
    /\ relevant_articles' = FilterArticlesByKeywords(flt_articles, flt_keywords)
    /\ UNCHANGED <<flt_articles, flt_keywords>>
    /\ UNCHANGED <<fwVars, idsVars, detVars, absVars, citVars, xmlVars, runVars>>

\* No function of the last three groups is running.
RestIdle == XmlIdle /\ RunIdle /\ FltIdle

\* RunAfterIds without the test `if not pmids`: the run goes on to
\* fetch_article_details with whatever list came back.
RunAfterIds_NoEmptyTest ==
    /\ run_pc = "ids"
    /\ ids_pc = "returned"
    /\ run_stages' = Append(run_stages, "get_all_pubmed_ids")
    /\ UNCHANGED <<fwVars, idsVars, absVars, citVars, xmlVars, fltVars, run_output>>
    /\ UNCHANGED <<det_idx, articles, det_reqs, det_resp, det_sleeps>>
    /\ run_pc' = "details"
    /\ det_pc' = "loop"
    /\ pmids' = ids_ret
    /\ batch_size' = BatchSize

\* get_all_pubmed_ids has returned: lines 80-88, up to the first request of
\* fetch_article_details, or the `return` of line 85.
RunAfterIds ==
    /\ run_pc = "ids"
    /\ ids_pc = "returned"
    /\ run_stages' = Append(run_stages, "get_all_pubmed_ids")
    /\ UNCHANGED <<fwVars, idsVars, absVars, citVars, xmlVars, fltVars, run_output>>
    /\ UNCHANGED <<det_idx, articles, det_reqs, det_resp, det_sleeps>>
    /\ IF ids_ret = <<>>
       THEN /\ run_pc' = "returned"
            /\ UNCHANGED <<det_pc, pmids, batch_size>>
       ELSE /\ run_pc' = "details"
            /\ det_pc' = "loop"
            /\ pmids' = ids_ret
            /\ batch_size' = BatchSize

\* get_all_pubmed_ids has raised: so does run_crawler.
RunIdsRaised ==
    /\ run_pc = "ids"
    /\ ids_pc = "raised"
    /\ run_pc' = "raised"
    /\ UNCHANGED <<fwVars, idsVars, detVars, absVars, citVars, xmlVars, fltVars,
                   run_stages, run_output>>

\* fetch_article_details has returned: lines 88-92, up to the first request
\* of fetch_abstracts.
RunAfterDetails ==
    /\ run_pc = "details"
    /\ det_pc = "returned"
    /\ run_pc' = "abstracts"
    /\ run_stages' = Append(run_stages, "fetch_article_details")
    /\ abs_pc' = "loop"
    /\ abs_batch_size' = AbstractBatchSize
    /\ abs_in' = articles
    /\ UNCHANGED <<abs_idx, abs_j, abstracts_by_pmid, abs_xml_reqs, abs_xml_res,
                   abs_text_reqs, abs_text_res>>
    /\ UNCHANGED <<fwVars, idsVars, detVars, citVars, xmlVars, fltVars, run_output>>

\* fetch_abstracts has returned: lines 95-104, the filter, the display and
\* the saving of the result.
RunFilterAndSave ==
    /\ run_pc = "abstracts"
    /\ abs_pc = "returned"
    /\ run_pc' = "returned"
    /\ run_stages' = run_stages \o <<"fetch_abstracts", "filter_articles_by_keywords",
                                     "save_results_to_json">>
    /\ run_output' = [written |-> TRUE,
                      articles |-> FilterArticlesByKeywords(articles, Keywords)]
    /\ UNCHANGED <<fwVars, idsVars, detVars, absVars, citVars, xmlVars, fltVars>>

(***************************************************************************)
(* SpecRetry: one call of fetch_with_retry, for every max_retries and      *)
(* base_delay within the bounds and every sequence of attempt outcomes.    *)
(***************************************************************************)
InitRetry ==
    /\ fw_pc = "run"
    /\ fw_max \in 0..MaxRetriesArg
    /\ fw_base \in 1..MaxBaseDelay
    /\ fw_attempt = 0
    /\ fw_last = "none"
    /\ fw_gets = 0
    /\ fw_sleeps = <<>>
    /\ fw_result = "none"
    /\ IdsIdle
    /\ DetIdle
    /\ AbsIdle
    /\ CitIdle
    /\ RestIdle

NextRetry ==
    \/ \E o \in Outcomes : FwAttempt(o)
    \/ FwLoopExit

SpecRetry == InitRetry /\ [][NextRetry]_vars

\* The interpreter runs the call's loop until it returns.
FairSpecRetry == SpecRetry /\ WF_vars(NextRetry)

(***************************************************************************)
(* SpecIds: one call of get_all_pubmed_ids(query, max_articles, max_step), *)
(* for every cap, page size and server total within the bounds, every      *)
(* outcome of every request and every body of every response.              *)
(***************************************************************************)
InitIds ==
    /\ FwIdle
    /\ ids_pc = "start"
    /\ arg_max_articles \in -1..MaxCap
    /\ max_step \in 1..MaxStep
    /\ srv_total \in 0..MaxTotal
    /\ max_articles = arg_max_articles
    /\ total_count = 0
    /\ num_batches = 0
    /\ batch_idx = 0
    /\ all_pmids = <<>>
    /\ ids_ret = <<>>
    /\ page_reqs = <<>>
    /\ ids_trouble = "none"
    /\ DetIdle
    /\ AbsIdle
    /\ CitIdle
    /\ RestIdle

NextIds ==
    \/ IdsProbeCall
    \/ IdsProbeReturn
    \/ IdsPageCall
    \/ IdsPageReturn
    \/ \E o \in Outcomes : FwAttempt(o)
    \/ FwLoopExit

SpecIds == InitIds /\ [][NextIds]_vars

(***************************************************************************)
(* SpecDetails: one call of fetch_article_details(pmids, batch_size), for  *)
(* every list of up to MaxPmids identifiers, every batch size up to        *)
(* MaxBatch, every outcome of every request and every response.            *)
(***************************************************************************)
InitDetails ==
    /\ FwIdle
    /\ IdsIdle
    /\ det_pc = "loop"
    /\ \E n \in 0..MaxPmids : pmids = [i \in 1..n |-> IdAt(i)]
    /\ batch_size \in 1..MaxBatch
    /\ det_idx = 0
    /\ articles = <<>>
    /\ det_reqs = <<>>
    /\ det_resp = <<>>
    /\ det_sleeps = 0
    /\ AbsIdle
    /\ CitIdle
    /\ RestIdle

NextDetails ==
    \/ DetBatchCall
    \/ DetBatchFailed
    \/ DetBatchUnparsed
    \/ DetBatchParsed
    \/ \E o \in Outcomes : FwAttempt(o)
    \/ FwLoopExit

SpecDetails == InitDetails /\ [][NextDetails]_vars

(***************************************************************************)
(* SpecAbstracts: one call of fetch_abstracts(articles, batch_size), for   *)
(* every list of up to MaxArticles records (each with an empty abstract,   *)
(* or with one a previous call left), every batch size up to MaxBatch,     *)
(* every outcome of every request and every response.                      *)
(***************************************************************************)
OldAbstract == <<"o", "l", "d">>

InputArticles ==
    UNION { { [i \in 1..n |-> [CleanArticle(IdAt(i), ArticleData("full"))
                                 EXCEPT !.abstract = a[i]]] :
                a \in [1..n -> {<<>>, OldAbstract}] } : n \in 0..MaxArticles }

InitAbstracts ==
    /\ FwIdle
    /\ IdsIdle
    /\ det_pc = "idle"
    /\ pmids = <<>>
    /\ batch_size = 0
    /\ det_idx = 0
    /\ det_reqs = <<>>
    /\ det_resp = <<>>
    /\ det_sleeps = 0
    /\ articles \in InputArticles
    /\ abs_in = articles
    /\ abs_pc = "loop"
    /\ abs_batch_size \in 1..MaxBatch
    /\ abs_idx = 0
    /\ abs_j = 0
    /\ abstracts_by_pmid = <<>>
    /\ abs_xml_reqs = <<>>
    /\ abs_xml_res = <<>>
    /\ abs_text_reqs = <<>>
    /\ abs_text_res = <<>>
    /\ CitIdle
    /\ RestIdle

NextAbstracts ==
    \/ AbsBatchCall
    \/ AbsXmlFailed
    \/ AbsXmlParsed
    \/ AbsRecord
    \/ AbsTextReturn
    \/ \E o \in Outcomes : FwAttempt(o)
    \/ FwLoopExit

SpecAbstracts == InitAbstracts /\ [][NextAbstracts]_vars

(***************************************************************************)
(* SpecCite: one call of enrich_articles_with_citations(articles), for     *)
(* every list of up to MaxCited records, each with or without a DOI, a     *)
(* PMID and a title, and every outcome of every request.                   *)
(***************************************************************************)
ADoi == <<"1", "0", ".", "1", "/", "x">>

ATitle == <<"T">>

\* An author list whose first name holds a word, and one whose first name
\* is blank.
NamedAuthors == << <<"J", " ", "S">> >>

BlankAuthors == << <<" ">> >>

\* The record at position i, as fetch_article_details builds it.
CitedArticle(i, has_doi, has_pmid, has_title, authors) ==
    [pmid     |-> IF has_pmid THEN IdAt(i) ELSE "",
     title    |-> IF has_title THEN ATitle ELSE <<>>,
     journal  |-> <<>>,
     pub_date |-> <<>>,
     doi      |-> IF has_doi THEN ADoi ELSE <<>>,
     url      |-> UrlOf(IdAt(i)),
     authors  |-> authors,
     abstract |-> <<>>]

CitedShapes(i) ==
    { CitedArticle(i, d, p, t, NamedAuthors) : d \in BOOLEAN, p \in BOOLEAN, t \in BOOLEAN }
    \cup { CitedArticle(i, FALSE, FALSE, TRUE, <<>>),
           CitedArticle(i, FALSE, FALSE, TRUE, BlankAuthors),
           CitedArticle(i, TRUE, TRUE, TRUE, BlankAuthors) }

CitedInputs ==
    UNION { { l \in [1..n -> UNION { CitedShapes(i) : i \in 1..n }] :
                \A i \in 1..n : l[i] \in CitedShapes(i) } : n \in 0..MaxCited }

InitCite ==
    /\ FwIdle
    /\ IdsIdle
    /\ det_pc = "idle"
    /\ pmids = <<>>
    /\ batch_size = 0
    /\ det_idx = 0
    /\ det_reqs = <<>>
    /\ det_resp = <<>>
    /\ det_sleeps = 0
    /\ AbsIdle
    /\ articles \in CitedInputs
    /\ cit_in = articles
    /\ cit_pc = "next"
    /\ cit_i = 1
    /\ cit_attempt = 0
    /\ citation_count = NoCount
    /\ cit_rec = 0
    /\ cit_queried = <<>>
    /\ cit_answered = "none"
    /\ cit_value = NoCount
    /\ cit_a_end = "none"
    /\ cit_call = <<>>
    /\ cit_dois = <<>>
    /\ RestIdle

NextCite ==
    \/ CitNext
    \/ CitAttemptA
    \/ CitAttemptX
    \/ CitAttemptB
    \/ CitAttemptC

SpecCite == InitCite /\ [][NextCite]_vars

(***************************************************************************)
(* SpecDoi: one call of enrich_articles_with_citations for one record that *)
(* has a PMID, a title and a DOI in one of the spellings below.            *)
(***************************************************************************)
\* Up to n blanks.
Blanks(n) == UNION { { [i \in 1..k |-> " "] } : k \in 0..n }

DoiPrefixes ==
    { <<>>, <<"d", "o", "i", ":">>, <<"D", "O", "I", ":">>, <<"D", "o", "i", ":">>,
      <<"d", "o", "i", ":", "d", "o", "i", ":">> }

\* The DOI strings: blanks, a prefix or none, blanks, the DOI, blanks.
RawDois ==
    { b1 \o p \o b2 \o ADoi \o b3 :
        b1 \in Blanks(MaxBlanks), p \in DoiPrefixes,
        b2 \in Blanks(MaxBlanks), b3 \in Blanks(MaxBlanks) }

InitDoi ==
    /\ FwIdle
    /\ IdsIdle
    /\ det_pc = "idle"
    /\ pmids = <<>>
    /\ batch_size = 0
    /\ det_idx = 0
    /\ det_reqs = <<>>
    /\ det_resp = <<>>
    /\ det_sleeps = 0
    /\ AbsIdle
    /\ \E raw \in RawDois :
          articles = << [CitedArticle(1, TRUE, TRUE, TRUE, NamedAuthors) EXCEPT !.doi = raw] >>
    /\ cit_in = articles
    /\ cit_pc = "next"
    /\ cit_i = 1
    /\ cit_attempt = 0
    /\ citation_count = NoCount
    /\ cit_rec = 0
    /\ cit_queried = <<>>
    /\ cit_answered = "none"
    /\ cit_value = NoCount
    /\ cit_a_end = "none"
    /\ cit_call = <<>>
    /\ cit_dois = <<>>
    /\ RestIdle

SpecDoi == InitDoi /\ [][NextCite]_vars

(***************************************************************************)
(* SpecBatching: one call of either function that works through its list   *)
(* in batches, fetch_article_details or fetch_abstracts.                    *)
(***************************************************************************)
InitBatching == InitDetails \/ InitAbstracts

NextBatching == NextDetails \/ NextAbstracts

SpecBatching == InitBatching /\ [][NextBatching]_vars

(***************************************************************************)
(* SpecXml: one call of extract_abstracts_from_xml, for a document that    *)
(* does not parse and for every document of one PubmedArticle with up to   *)
(* MaxSections AbstractText elements (each with or without a label, with   *)
(* or without text), alone or followed by a second PubmedArticle: one      *)
(* without a PMID, one of the same PMID, or one of another PMID.           *)
(***************************************************************************)
SectionKinds == {"labelled", "bare", "labelonly", "empty"}

\* The AbstractText element at position i of an article.
SectionAt(kind, i) ==
    [label |-> IF kind \in {"labelled", "labelonly"} THEN <<"L", ToString(i)>> ELSE <<>>,
     text  |-> IF kind \in {"labelled", "bare"} THEN <<"t", ToString(i)>> ELSE <<>>]

SectionLists ==
    UNION { { [i \in 1..n |-> SectionAt(k[i], i)] : k \in [1..n -> SectionKinds] } :
              n \in 0..MaxSections }

SecondArticles ==
    { <<>>,
      << [haspmid |-> FALSE, pmid |-> "", sections |-> Sections("plain")] >>,
      << [haspmid |-> TRUE, pmid |-> IdAt(1), sections |-> Sections("plain")] >>,
      << [haspmid |-> TRUE, pmid |-> IdAt(2), sections |-> Sections("labelled")] >>,
      << [haspmid |-> TRUE, pmid |-> IdAt(2), sections |-> Sections("emptytext")] >> }

XmlInputs ==
    {[wellformed |-> FALSE, articles |-> <<>>]}
    \cup {[wellformed |-> TRUE,
           articles |-> << [haspmid |-> TRUE, pmid |-> IdAt(1), sections |-> s] >> \o more] :
            s \in SectionLists, more \in SecondArticles}

InitXml ==
    /\ FwIdle
    /\ IdsIdle
    /\ DetIdle
    /\ AbsIdle
    /\ CitIdle
    /\ xml_pc = "call"
    /\ xml_content \in XmlInputs
    /\ xml_abstracts = <<>>
    /\ RunIdle
    /\ FltIdle

NextXml == XmlExtract

SpecXml == InitXml /\ [][NextXml]_vars

(***************************************************************************)
(* SpecCrawler: one run of run_crawler, for every --max-articles in        *)
(* -1..MaxRunTotal and a server that holds 0..MaxRunTotal identifiers,     *)
(* with every outcome of every request and every response.                 *)
(***************************************************************************)
InitCrawler ==
    /\ FwIdle
    /\ ids_pc = "start"
    /\ arg_max_articles \in -1..MaxRunTotal
    /\ max_step = BatchSize
    /\ srv_total \in 0..MaxRunTotal
    /\ max_articles = arg_max_articles
    /\ total_count = 0
    /\ num_batches = 0
    /\ batch_idx = 0
    /\ all_pmids = <<>>
    /\ ids_ret = <<>>
    /\ page_reqs = <<>>
    /\ ids_trouble = "none"
    /\ DetIdle
    /\ AbsIdle
    /\ CitIdle
    /\ XmlIdle
    /\ FltIdle
    /\ run_pc = "ids"
    /\ run_stages = <<>>
    /\ run_output = [written |-> FALSE, articles |-> <<>>]

NextCrawler ==
    \/ NextIds
    \/ RunAfterIds
    \/ RunIdsRaised
    \/ NextDetails
    \/ RunAfterDetails
    \/ NextAbstracts
    \/ RunFilterAndSave

SpecCrawler == InitCrawler /\ [][NextCrawler]_vars

(***************************************************************************)
(* SpecStages: the stages that work on the list of records, each on the    *)
(* inputs of its own specification: a run of run_crawler (paginator,       *)
(* fetch_article_details, fetch_abstracts, keyword filter, saving), a call *)
(* of fetch_abstracts on records a previous call has filled, and a call of *)
(* enrich_articles_with_citations.                                         *)
(***************************************************************************)
InitStages == InitCrawler \/ InitAbstracts \/ InitCite

NextStages == NextCrawler \/ NextCite

SpecStages == InitStages /\ [][NextStages]_vars

(***************************************************************************)
(* SpecFilter: one call of filter_articles_by_keywords(articles, keywords) *)
(* for every list of up to MaxFiltered records, each with one of the       *)
(* titles and one of the abstracts below, and every keyword list below.    *)
(* The letter t stands for a first word and m for a second one, so that    *)
(* "t m" is a keyword of two words, as "language model" is in              *)
(* config.KEYWORDS.                                                        *)
(***************************************************************************)
FilterTitles == {<<>>, <<"t">>, <<"T", " ", "m">>, <<"q">>}

FilterAbstracts == {<<>>, <<"m">>, <<"t", " ", "M">>, <<"q">>}

KeywordLists ==
    { <<>>,
      << <<"t", " ", "m">> >>,
      << <<"M">> >>,
      << <<"z">>, <<"t", " ", "m">> >> }

\* The record at position i with the given title and abstract.
FilteredArticle(i, title, abstract) ==
    [CleanArticle(IdAt(i), ArticleData("full")) EXCEPT !.title = title,
                                                         !.abstract = abstract]

FilterInputs ==
    UNION { { [i \in 1..n |-> FilteredArticle(i, t[i], a[i])] :
                t \in [1..n -> FilterTitles], a \in [1..n -> FilterAbstracts] } :
            n \in 0..MaxFiltered }

InitFilter ==
    /\ FwIdle
    /\ IdsIdle
    /\ DetIdle
    /\ AbsIdle
    /\ CitIdle
    /\ XmlIdle
    /\ RunIdle
    /\ flt_pc = "call"
    /\ flt_articles \in FilterInputs
    /\ flt_keywords \in KeywordLists
    /\ relevant_articles = <<>>

NextFilter == FltFilter

SpecFilter == InitFilter /\ [][NextFilter]_vars

(***************************************************************************)
(* Claims about fetch_with_retry.                                          *)
(***************************************************************************)

C3_Safe ==
    /\ fw_gets <= fw_max
    /\ (fw_last = "ok" => fw_pc = "done" /\ fw_result = "Response")
    /\ (fw_result = "Response" => fw_last = "ok")
    /\ (fw_pc = "done" <=> fw_result \in {"Response", "None"})

\* C3: one call of fetch_with_retry issues at most max_retries GET requests,
\* a 2xx attempt ends the call at once with the response (no request follows
\* it, and a response is returned only for a 2xx attempt), and the call
\* always ends with a response or with None, whatever the attempts produce.
C3_BoundedRetryTerminates ==
    /\ [](C3_Safe)
    /\ [][fw_pc = "done" => fw_gets' = fw_gets]_vars
    /\ <>(fw_pc = "done" /\ fw_result \in {"Response", "None"})

\* A call that failed on every attempt but the last permitted one, which
\* was answered 2xx.
C3_Witness ==
    /\ fw_pc = "done"
    /\ fw_result = "Response"
    /\ fw_max >= 3
    /\ fw_gets = fw_max

\* C4: an attempt answered 4xx other than 429 ends the call with None in the
\* same step, without a sleep, and no request follows it, on any attempt.
C4_ClientErrorNoRetry ==
    [][ /\ (fw_gets' # fw_gets /\ fw_last' = "h4xx")
            => (fw_pc' = "done" /\ fw_result' = "None" /\ fw_sleeps' = fw_sleeps)
        /\ (fw_last = "h4xx" => fw_gets' = fw_gets /\ fw_sleeps' = fw_sleeps) ]_vars

\* A 4xx answer on an attempt after the first ended the call.
C4_Witness ==
    /\ fw_pc = "done"
    /\ fw_last = "h4xx"
    /\ fw_result = "None"
    /\ fw_attempt >= 2
    /\ fw_attempt < fw_max - 1


\* b to the power k.
RECURSIVE Power(_, _)
Power(b, k) == IF k = 0 THEN 1 ELSE b * Power(b, k - 1)

\* An attempt fails in this step and is slept over.
FailedAttemptSlept == fw_gets' = fw_gets + 1 /\ fw_sleeps' # fw_sleeps

\* C19: the sleep after the failed attempt number k (from 0) lasts
\* base_delay * 2^k after a connection error, a timeout or a 5xx and
\* base_delay * 3^k after a 429, and every failed attempt takes one of the
\* max_retries iterations: the attempt number is the number of requests
\* made, which never exceeds max_retries.
C19_BackoffFactors ==
    /\ [][FailedAttemptSlept =>
            /\ Len(fw_sleeps') = Len(fw_sleeps) + 1
            /\ fw_attempt' = fw_attempt + 1
            /\ fw_last' \in {"conn", "timeout", "h5xx"} =>
                  fw_sleeps'[Len(fw_sleeps')] = fw_base * Power(2, fw_attempt)
            /\ fw_last' = "h429" =>
                  fw_sleeps'[Len(fw_sleeps')] = fw_base * Power(3, fw_attempt)]_vars
    /\ [](fw_pc = "run" => fw_gets = fw_attempt /\ fw_attempt <= fw_max)
    /\ [](fw_gets <= fw_max)

\* Base delay 2: a connection error, then a 429, then a 5xx were slept over
\* for 2, 6 and 8.
C19_Witness ==
    /\ fw_base = 2
    /\ fw_sleeps = <<2, 6, 8>>
    /\ fw_last = "h5xx"


\* C27 as stated: every backoff sleep of fetch_with_retry is followed by
\* another request, for every kind of failure: a call that has ended has
\* slept once between any two of its requests and not after the last one.
C27_SleepFollowedByRequest ==
    fw_pc = "done" => Len(fw_sleeps) = (IF fw_gets = 0 THEN 0 ELSE fw_gets - 1)

(***************************************************************************)
(* Claims about get_all_pubmed_ids.                                        *)
(***************************************************************************)

\* C1: for a cap max_articles >= 0 the returned list is never longer than
\* the cap, and it holds exactly min(cap, server total) identifiers when the
\* probe and every page came back whole.
C1_LengthWithinCap ==
    (ids_pc = "returned" /\ arg_max_articles >= 0)
        => /\ Len(ids_ret) <= arg_max_articles
           /\ (ids_trouble = "none"
                 => Len(ids_ret) = Min(arg_max_articles, srv_total))

\* A run without trouble that stopped at the cap, below the server's total,
\* on a last page smaller than the page size.
C1_Witness ==
    /\ ids_pc = "returned"
    /\ ids_trouble = "none"
    /\ arg_max_articles >= 3
    /\ arg_max_articles < srv_total
    /\ Len(page_reqs) >= 2
    /\ page_reqs[Len(page_reqs)].retmax < max_step
    /\ Len(ids_ret) = arg_max_articles

\* C2: with max_articles = -1 the effective cap is the total the probe
\* reported, and a run without trouble returns the server's whole list.
C2_SentinelFetchesAll ==
    arg_max_articles = -1
        => /\ (ids_pc \in {"loop", "page"}
                 => max_articles = srv_total /\ total_count = srv_total)
           /\ ((ids_pc = "returned" /\ ids_trouble = "none")
                 => /\ Len(ids_ret) = srv_total
                    /\ ids_ret = ServerWindow(srv_total, srv_total, 0))

\* A run with the sentinel that took several pages to return everything.
C2_Witness ==
    /\ arg_max_articles = -1
    /\ ids_pc = "returned"
    /\ ids_trouble = "none"
    /\ srv_total >= 3
    /\ Len(page_reqs) >= 2
    /\ Len(ids_ret) = srv_total

\* C5: once a fetch_with_retry of the paginator has returned None the call
\* has returned (it has not raised, and it issues nothing more): the empty
\* list and no page request when the probe failed, and otherwise exactly
\* the identifiers of the pages before the failed one, in the server's order.
C5_FetchFailureReturnsPartial ==
    ids_trouble = "fetch"
        => /\ ids_pc = "returned"
           /\ fw_pc = "idle"
           /\ IF page_reqs = <<>>
              THEN ids_ret = <<>>
              ELSE LET failed == page_reqs[Len(page_reqs)] IN
                     /\ Len(ids_ret) = failed.retstart
                     /\ ids_ret = ServerWindow(srv_total, failed.retstart, 0)

\* The third page's fetch failed after two pages were collected.
C5_Witness ==
    /\ ids_trouble = "fetch"
    /\ ids_pc = "returned"
    /\ Len(page_reqs) = 3
    /\ Len(ids_ret) >= 2


\* The least number of parts of at most b elements that hold a elements.
CeilDiv(a, b) == IF a % b = 0 THEN a \div b ELSE (a \div b) + 1

\* The cap a call works with: the argument, or the server's total for -1.
CapOfCall == IF arg_max_articles = -1 THEN srv_total ELSE arg_max_articles

\* C17: a call with cap C <= server total and page size P whose probe and
\* pages all came back whole has issued exactly ceil(C/P) page requests,
\* each for P identifiers but the last, which asks for C - P*(ceil(C/P)-1),
\* and returns exactly C identifiers.
C17_PageRequestSizes ==
    (ids_pc = "returned" /\ ids_trouble = "none" /\ CapOfCall <= srv_total)
        => LET n == CeilDiv(CapOfCall, max_step) IN
             /\ Len(page_reqs) = n
             /\ \A k \in 1..Len(page_reqs) :
                   page_reqs[k].retmax =
                      (IF k < n THEN max_step ELSE CapOfCall - max_step * (n - 1))
             /\ Len(ids_ret) = CapOfCall

\* Cap 3 of a total of 4 in pages of 2: requests for 2 and for 1.
C17_Witness ==
    /\ ids_pc = "returned"
    /\ ids_trouble = "none"
    /\ arg_max_articles = 3
    /\ srv_total = 4
    /\ max_step = 2
    /\ Len(page_reqs) = 2
    /\ page_reqs[1].retmax = 2
    /\ page_reqs[2].retmax = 1
    /\ Len(ids_ret) = 3


\* C25: the first page request of get_all_pubmed_ids has offset 0, and the
\* offset of every page request equals the number of identifiers collected
\* when it is sent, whatever the pages before it returned.
C25_OffsetIsNumberCollected ==
    ids_pc = "page" =>
        /\ page_reqs # <<>>
        /\ page_reqs[1].retstart = 0
        /\ page_reqs[Len(page_reqs)].retstart = Len(all_pmids)

\* A second page is being requested after a first page of two identifiers.
C25_Witness ==
    /\ ids_pc = "page"
    /\ Len(page_reqs) = 2
    /\ Len(all_pmids) = 2
    /\ page_reqs[2].retstart = 2

(***************************************************************************)
(* Claims about fetch_article_details.                                     *)
(***************************************************************************)

\* The batches of fetch_article_details's argument, in order.
BatchesOf(list, size) ==
    [i \in 1..TotalBatches(Len(list), size) |-> BatchSlice(list, i - 1, size)]

\* The identifier lists of the responses that were parsed, concatenated.
RECURSIVE AllUids(_)
AllUids(resp) ==
    IF resp = <<>> THEN <<>>
    ELSE (IF resp[1].ok THEN resp[1].uids ELSE <<>>) \o AllUids(Tail(resp))

\* The identifiers of uids whose entry is not of kind "bad", in order.
RECURSIVE Mappable(_, _)
Mappable(uids, kinds) ==
    IF uids = <<>> THEN <<>>
    ELSE (IF kinds[1] = "bad" THEN <<>> ELSE <<uids[1]>>)
         \o Mappable(Tail(uids), Tail(kinds))

\* The same, without the identifiers whose entry cannot be mapped.
RECURSIVE MappableUids(_)
MappableUids(resp) ==
    IF resp = <<>> THEN <<>>
    ELSE (IF resp[1].ok THEN Mappable(resp[1].uids, resp[1].kinds) ELSE <<>>)
         \o MappableUids(Tail(resp))

\* C6 as stated: when fetch_article_details returns, every batch has been
\* requested exactly once, in order, whatever happened to the batches before
\* it, and the returned list holds one record per identifier of the
\* identifier lists of the parsed responses, in batch order and list order.
C6_OneRecordPerUid ==
    det_pc = "returned"
        => /\ det_reqs = BatchesOf(pmids, batch_size)
           /\ Len(det_resp) = Len(det_reqs)
           /\ PmidsOf(articles) = AllUids(det_resp)

\* C6 as amended: the same, for the identifiers whose entry can be mapped to
\* a record; an identifier whose entry makes the mapping raise is skipped.
C6_OneRecordPerMappableUid ==
    det_pc = "returned"
        => /\ det_reqs = BatchesOf(pmids, batch_size)
           /\ Len(det_resp) = Len(det_reqs)
           /\ PmidsOf(articles) = MappableUids(det_resp)

\* A failed batch was followed by a parsed batch whose only identifier
\* could not be mapped and by a parsed batch that gave a record.
C6_Witness ==
    /\ det_pc = "returned"
    /\ Len(det_resp) = 3
    /\ ~det_resp[1].ok
    /\ det_resp[2].ok
    /\ det_resp[2].kinds = <<"bad">>
    /\ det_resp[3].ok
    /\ det_resp[3].kinds = <<"full">>
    /\ PmidsOf(articles) = det_resp[3].uids


\* C24 as stated: fetch_article_details sleeps the inter-request delay after
\* every batch, whether its request succeeded or failed: whenever the loop
\* is between two batches or has ended, it has slept once per batch done.
C24_SleepAfterEveryBatch ==
    det_pc \in {"loop", "returned"} => det_sleeps = Len(det_resp)

(***************************************************************************)
(* Claims about fetch_abstracts.                                           *)
(***************************************************************************)

\* How often x occurs in the sequence s.
Count(s, x) == Cardinality({i \in 1..Len(s) : s[i] = x})

\* The number (from 1) of the batch the k-th record belongs to.
AbsBatchOf(k) == ((k - 1) \div abs_batch_size) + 1

\* The records whose batch's structured request has been answered, failed
\* (ok = FALSE) or not (ok = TRUE).
AbsRecordsOfBatches(ok) ==
    {k \in 1..Len(articles) :
        /\ AbsBatchOf(k) <= Len(abs_xml_res)
        /\ abs_xml_res[AbsBatchOf(k)].ok = ok}

\* C7 as stated: when fetch_abstracts returns, a plain-text request has
\* been issued for every record of a batch whose structured request failed.
C7_FallbackAfterXmlFailure ==
    abs_pc = "returned"
        => \A k \in AbsRecordsOfBatches(FALSE) :
              Count(abs_text_reqs, articles[k].pmid) >= 1

\* C7 as amended: for a batch whose structured request failed no plain-text
\* request is issued, its records keep the abstract they had, and the
\* batches after it are still requested.
C7_NoFallbackAfterXmlFailure ==
    /\ \A k \in AbsRecordsOfBatches(FALSE) :
          /\ Count(abs_text_reqs, articles[k].pmid) = 0
          /\ articles[k] = abs_in[k]
    /\ abs_pc = "returned"
          => /\ abs_xml_reqs = [b \in 1..TotalBatches(Len(abs_in), abs_batch_size) |->
                                  PmidsOf(BatchSlice(abs_in, b - 1, abs_batch_size))]
             /\ Len(abs_xml_res) = Len(abs_xml_reqs)

\* The first batch's structured request failed, the second batch's did not
\* and its record got an abstract.
C7_Witness ==
    /\ abs_pc = "returned"
    /\ Len(abs_xml_res) = 2
    /\ ~abs_xml_res[1].ok
    /\ abs_xml_res[2].ok
    /\ abs_in[1].abstract = <<>>
    /\ articles[1].abstract = <<>>
    /\ abs_in[2].abstract = <<>>
    /\ articles[2].abstract # <<>>

\* The position of the only plain-text request for pmid.
TextRequestOf(pmid) == CHOOSE r \in 1..Len(abs_text_reqs) : abs_text_reqs[r] = pmid

\* C8: when fetch_abstracts returns, every record of a batch whose
\* structured request succeeded either was mapped to a non-empty text by
\* the parsed result, has that text and caused no plain-text request, or
\* caused exactly one plain-text request for its own identifier, and then
\* has the abstract extracted from the response, or the abstract it had
\* before when that request failed; the run went on to the last record.
C8_PerRecordFallback ==
    abs_pc = "returned"
        => /\ Len(abs_xml_res) = TotalBatches(Len(abs_in), abs_batch_size)
           /\ Len(abs_text_res) = Len(abs_text_reqs)
           /\ \A k \in AbsRecordsOfBatches(TRUE) :
                LET pmid == articles[k].pmid
                    parsed == abs_xml_res[AbsBatchOf(k)].parsed
                IN  IF pmid \in DOMAIN parsed /\ parsed[pmid] # <<>>
                    THEN /\ articles[k].abstract = parsed[pmid]
                         /\ Count(abs_text_reqs, pmid) = 0
                    ELSE /\ Count(abs_text_reqs, pmid) = 1
                         /\ LET res == abs_text_res[TextRequestOf(pmid)] IN
                              articles[k].abstract =
                                 (IF res.ok THEN res.abstract ELSE abs_in[k].abstract)

\* In a batch of two whose structured request succeeded, the first record's
\* plain-text request failed and left its abstract as it was, the second
\* record's plain-text request gave its abstract.
C8_Witness ==
    /\ abs_pc = "returned"
    /\ abs_batch_size = 2
    /\ Len(abs_xml_res) = 1
    /\ abs_xml_res[1].ok
    /\ Len(abs_text_res) = 2
    /\ ~abs_text_res[1].ok
    /\ abs_text_res[2].ok
    /\ abs_text_res[2].abstract # <<>>
    /\ articles[1].abstract = OldAbstract
    /\ articles[2].abstract = abs_text_res[2].abstract


\* The records that had an abstract when fetch_abstracts was called.
FilledBefore == {k \in 1..Len(abs_in) : abs_in[k].abstract # <<>>}

\* C26 as stated: a call of fetch_abstracts on records whose abstract is
\* already non-empty leaves those abstracts as they were, whatever the
\* server answers.
C26_FilledAbstractsKept ==
    abs_pc = "returned"
        => \A k \in FilledBefore : articles[k].abstract = abs_in[k].abstract

\* C26 as amended: a record that had an abstract is requested again like
\* any other; when fetch_abstracts returns it has the text the structured
\* response holds for it, or else the extraction from its plain-text
\* response (the empty string when that response holds no abstract), and it
\* has kept its abstract only if its batch's structured request failed, or
\* the structured response had no text for it and its plain-text request
\* failed.
C26_FilledAbstractsOverwritten ==
    abs_pc = "returned"
        => \A k \in FilledBefore :
              LET pmid == articles[k].pmid
                  b == AbsBatchOf(k)
              IN  /\ Count(abs_xml_reqs[b], pmid) = 1
                  /\ IF ~abs_xml_res[b].ok
                     THEN articles[k].abstract = abs_in[k].abstract
                     ELSE IF HasXmlAbstract(abs_xml_res[b].parsed, pmid)
                     THEN articles[k].abstract = abs_xml_res[b].parsed[pmid]
                     ELSE /\ Count(abs_text_reqs, pmid) = 1
                          /\ articles[k].abstract =
                               (IF abs_text_res[TextRequestOf(pmid)].ok
                                THEN abs_text_res[TextRequestOf(pmid)].abstract
                                ELSE abs_in[k].abstract)

\* Two records that had an abstract: the first has lost it to a plain-text
\* response without abstract, the second has got another text.
C26_Witness ==
    /\ abs_pc = "returned"
    /\ Len(abs_in) = 2
    /\ abs_in[1].abstract = OldAbstract
    /\ abs_in[2].abstract = OldAbstract
    /\ articles[1].abstract = <<>>
    /\ articles[2].abstract \notin {<<>>, OldAbstract}

(***************************************************************************)
(* Claims about enrich_articles_with_citations (checked under SpecCite).   *)
(***************************************************************************)
\* The place of a source in the chain.
Rank(src) ==
    CASE src = "A" -> 1
      [] src = "X" -> 2
      [] src = "B" -> 3
      [] OTHER     -> 4

Asked(src) == \E k \in 1..Len(cit_queried) : cit_queried[k] = src

\* The iteration over the article at cit_rec has run to its end.
RecordDone == cit_rec >= 1 /\ cit_pc \in {"next", "returned"}

\* C9: for each record the sources are asked in the order A (with its
\* Crossref fallback), B, C; A only for a non-empty DOI, B only when no
\* count has been obtained and the PMID is non-empty, C only when there is
\* still no count and the title is non-empty; the source that answered is
\* the last one asked; and when the iteration is over, every source whose
\* condition held has been asked.
C9_SourcesInPriorityOrder ==
    cit_rec >= 1 =>
      LET a == cit_in[cit_rec] IN
        /\ \A j, k \in 1..Len(cit_queried) :
              j < k => Rank(cit_queried[j]) < Rank(cit_queried[k])
        /\ Asked("A") => a.doi # <<>>
        /\ Asked("X") => Asked("A")
        /\ Asked("B") => a.pmid # "" /\ cit_answered \notin {"A", "X"}
        /\ Asked("C") => a.title # <<>> /\ cit_answered \notin {"A", "X", "B"}
        /\ cit_answered # "none" =>
              cit_queried # <<>> /\ cit_queried[Len(cit_queried)] = cit_answered
        /\ RecordDone =>
              /\ a.doi # <<>> => Asked("A")
              /\ (a.pmid # "" /\ cit_answered \notin {"A", "X"}) => Asked("B")
              /\ (a.title # <<>> /\ cit_answered \notin {"A", "X", "B"}) => Asked("C")

\* A record with all three fields: A and Crossref gave no count, B gave
\* none, the title search answered.
C9_Witness ==
    /\ RecordDone
    /\ cit_queried = <<"A", "X", "B", "C">>
    /\ cit_answered = "C"
    /\ cit_in[cit_rec].doi # <<>>

\* The tag that names a source (Crossref answers inside the DOI-keyed call).
TagOf(src) ==
    CASE src \in {"A", "X"} -> "semantic_scholar"
      [] src = "B"          -> "icite"
      [] src = "C"          -> "title_search"
      [] OTHER              -> "none"

\* C10: when a source returned a count for a record, the record's
\* citation_source is the tag of that source.
C10_SourceTagNamesAnswerer ==
    (RecordDone /\ cit_answered # "none") =>
        articles[cit_rec].citation_source = TagOf(cit_answered)

\* C11: when the iteration over a record is over, the record has both
\* fields; when a source returned a count, citation_count is that count;
\* and citation_count = 0 with citation_source = "none" holds exactly when
\* no source asked returned a count.  When the call has returned, every
\* record has both fields.
C11_CountIsFirstAnswer ==
    /\ RecordDone =>
         LET r == articles[cit_rec] IN
           /\ {"citation_count", "citation_source"} \subseteq DOMAIN r
           /\ cit_answered # "none" => r.citation_count = cit_value
           /\ (r.citation_count = 0 /\ r.citation_source = "none") <=> cit_answered = "none"
    /\ cit_pc = "returned" =>
         \A i \in 1..Len(articles) :
            {"citation_count", "citation_source"} \subseteq DOMAIN articles[i]

\* Two records done: the first without an answer, the second with a count
\* of 7 from the PMID source after the DOI source and Crossref gave none.
C11_Witness ==
    /\ cit_pc = "returned"
    /\ Len(articles) = 2
    /\ articles[1].citation_source = "none"
    /\ cit_answered = "B"
    /\ cit_queried = <<"A", "X", "B">>
    /\ articles[2].citation_count = 7

\* The last entry of the log of the last call.
LastOutcome == IF cit_call = <<>> THEN "none" ELSE cit_call[Len(cit_call)]

\* C12: a record without DOI and PMID but with a title, whose title search
\* ended with status 200 and an empty list of hits, ends with
\* citation_count = 0 and citation_source = "none".
C12_NoHitsIsNoAnswer ==
    ( /\ RecordDone
      /\ cit_in[cit_rec].doi = <<>>
      /\ cit_in[cit_rec].pmid = ""
      /\ cit_in[cit_rec].title # <<>>
      /\ cit_queried = <<"C">>
      /\ LastOutcome = "nohits" )
    => /\ articles[cit_rec].citation_count = 0
       /\ articles[cit_rec].citation_source = "none"

\* The DOI source answered 429 on one or more attempts and then 200 with a
\* count, and the iteration over the record is over.
RateLimitedThenAnswered ==
    /\ RecordDone
    /\ cit_answered = "A"
    /\ LastOutcome = "ok"
    /\ \E k \in 1..Len(cit_call) : cit_call[k] = "h429"
    /\ \A k \in 1..(Len(cit_call) - 1) : cit_call[k] \in {"h429", "sleep"}

\* C13: when the DOI source answered 429 one or more times and then 200
\* with the count c within its three attempts, the record ends with
\* citation_count = c and citation_source = "semantic_scholar", a sleep
\* follows every 429 before the next attempt, and neither Crossref nor the
\* PMID source nor the title search is asked.
C13_RateLimitedThenAnswered ==
    RateLimitedThenAnswered =>
        /\ articles[cit_rec].citation_count = cit_value
        /\ cit_value \in Counts
        /\ articles[cit_rec].citation_source = "semantic_scholar"
        /\ \A k \in 1..(Len(cit_call) - 1) :
              cit_call[k] = "h429" => cit_call[k + 1] = "sleep"
        /\ cit_queried = <<"A">>

\* Two 429 answers, then the count 7 on the third attempt.
C13_Witness ==
    /\ RateLimitedThenAnswered
    /\ cit_call = <<"h429", "sleep", "h429", "sleep", "ok">>
    /\ cit_value = 7

\* The call of the DOI source ends in this step.
CallOfAEnds == cit_a_end = "none" /\ cit_a_end' # "none"

RECURSIVE Gets(_)
Gets(log) ==
    IF log = <<>> THEN 0
    ELSE (IF log[1] = "sleep" THEN 0 ELSE 1) + Gets(Tail(log))

\* The bound on the requests of one call of a source.
RequestBound(src) ==
    CASE src = "A" -> 3
      [] src = "X" -> 2
      [] src = "B" -> 3
      [] OTHER     -> 2

Sources == {"A", "X", "B", "C"}

\* A call of a source ends in this step without a count.
CallEndsUnanswered ==
    /\ cit_pc \in Sources
    /\ cit_pc' # cit_pc
    /\ cit_answered' = "none"

\* C15: a call of a source issues at most 3, 2, 3, 2 requests (A,
\* Crossref, B, C); a call that ends without a count raises nothing: the
\* chain goes on, for the same record, to the next source whose condition
\* holds (or to the setting of the fields when there is none); the call
\* raises only before the first request of the title search; and a call that
\* returns has run through every record.
C15_BoundedCallsChainGoesOn ==
    /\ [](/\ cit_pc \in Sources =>
               /\ Gets(cit_call) = cit_attempt
               /\ cit_attempt < RequestBound(cit_pc)
          /\ (RecordDone /\ cit_queried # <<>>) =>
               Gets(cit_call) <= RequestBound(cit_queried[Len(cit_queried)])
          /\ cit_pc = "raised" =>
               /\ FirstAuthorRaises(cit_in[cit_rec].authors)
               /\ ~Asked("C")
          /\ cit_pc = "next" => cit_rec = cit_i - 1
          /\ cit_pc = "returned" => cit_rec = Len(articles) /\ cit_i = Len(articles) + 1)
    /\ [][CallEndsUnanswered =>
            LET a == cit_in[cit_rec] IN
              /\ cit_rec' = cit_rec
              /\ cit_i' \in {cit_i, cit_i + 1}
              /\ cit_pc' \in {"X", "B", "C", "next", "raised"}
              /\ cit_pc' = "X" => cit_pc = "A"
              /\ (cit_pc' # "X" /\ cit_pc \in {"A", "X"} /\ a.pmid # "") => cit_pc' = "B"
              /\ ( /\ cit_pc' # "X"
                   /\ cit_pc = "B" \/ (cit_pc \in {"A", "X"} /\ a.pmid = "")
                   /\ a.title # <<>>
                   /\ ~FirstAuthorRaises(a.authors) ) => cit_pc' = "C"
              /\ cit_pc' = "raised" => FirstAuthorRaises(a.authors)
              /\ cit_pc' = "next" => cit_i' = cit_i + 1]_vars

\* The first of two records had every source exhausted or refused, and the
\* second record has been processed too.
C15_Witness ==
    /\ cit_pc = "returned"
    /\ Len(articles) = 2
    /\ cit_in[1].doi # <<>> /\ cit_in[1].pmid # "" /\ cit_in[1].title # <<>>
    /\ articles[1].citation_source = "none"
    /\ articles[2].citation_source = "title_search"

\* The spellings of the prefix "doi:".
PrefixSpellings == { SubSeq(p, 1, 4) : p \in DoiPrefixes \ {<<>>} }

\* s begins with "doi:" in some letter case.
BeginsWithDoi(s) == Len(s) >= 4 /\ Lower(SubSeq(s, 1, 4)) = <<"d", "o", "i", ":">>

\* key is raw without the blanks around it and without one leading "doi:"
\* (in any letter case) and the blanks that follow it.
NormalisedFrom(key, raw) ==
    /\ key # <<>> => key[1] # " " /\ key[Len(key)] # " "
    /\ \E b1 \in Blanks(2 * MaxBlanks), b2 \in Blanks(MaxBlanks), b3 \in Blanks(MaxBlanks),
          p \in PrefixSpellings \cup {<<>>} :
          /\ raw = b1 \o p \o b2 \o key \o b3
          /\ p = <<>> => ~BeginsWithDoi(key) /\ b2 = <<>>

\* C21: the DOI of every lookup of source A is the record's DOI string
\* without surrounding blanks and without a leading "doi:" of any letter
\* case, followed by a blank or not; the DOI of a Crossref lookup is the
\* same treatment of the DOI source A looked up; there is one DOI per
\* lookup.
C21_DoiNormalisedBeforeLookup ==
    cit_rec >= 1 =>
        /\ Len(cit_dois) = Cardinality({k \in 1..Len(cit_queried) :
                                          cit_queried[k] \in {"A", "X"}})
        /\ Len(cit_dois) >= 1 => NormalisedFrom(cit_dois[1], cit_in[cit_rec].doi)
        /\ Len(cit_dois) >= 2 => NormalisedFrom(cit_dois[2], cit_dois[1])
        /\ cit_in[cit_rec].doi \in { <<"d", "o", "i", ":", " ">> \o ADoi,
                                      <<"D", "O", "I", ":">> \o ADoi }
              => \A k \in 1..Len(cit_dois) : cit_dois[k] = ADoi

\* "DOI:10.1/x" has been looked up as "10.1/x" by source A and by Crossref.
C21_Witness ==
    /\ cit_rec = 1
    /\ cit_in[1].doi = <<"D", "O", "I", ":">> \o ADoi
    /\ cit_dois = <<ADoi, ADoi>>
    /\ cit_queried = <<"A", "X">>


\* C28 as stated: the title search never raises, whatever the title and the
\* authors list of the record, a blank first author name included, so that
\* enrich_articles_with_citations goes through every record of its list.
C28_TitleSearchNeverRaises ==
    /\ cit_pc # "raised"
    /\ cit_pc = "returned" => cit_i = Len(cit_in) + 1

(***************************************************************************)
(* Claims about the batching of fetch_article_details and fetch_abstracts  *)
(* (checked under SpecBatching).                                           *)
(***************************************************************************)
\* The concatenation of the sequences of a sequence.
RECURSIVE Flatten(_)
Flatten(seqs) == IF seqs = <<>> THEN <<>> ELSE seqs[1] \o Flatten(Tail(seqs))

\* The requests reqs split the list of length-L identifiers `list` into
\* ceil(L/B) batches of 1..B elements whose concatenation is the list.
SplitsIntoBatches(reqs, list, B) ==
    /\ Len(reqs) = CeilDiv(Len(list), B)
    /\ \A k \in 1..Len(reqs) : Len(reqs[k]) >= 1 /\ Len(reqs[k]) <= B
    /\ Flatten(reqs) = list

\* C18: a call of fetch_article_details, and a call of fetch_abstracts,
\* that has returned has requested its list of length L in exactly
\* ceil(L/B) batches, none empty and none longer than the batch size B,
\* whose concatenation in order is the list.
C18_BatchesPartitionInput ==
    /\ det_pc = "returned" => SplitsIntoBatches(det_reqs, pmids, batch_size)
    /\ abs_pc = "returned" =>
          SplitsIntoBatches(abs_xml_reqs, PmidsOf(abs_in), abs_batch_size)

\* Three identifiers in batches of two: a full batch and a rest of one.
C18_Witness ==
    /\ det_pc = "returned"
    /\ Len(pmids) = 3
    /\ batch_size = 2
    /\ Len(det_reqs) = 2
    /\ Len(det_reqs[1]) = 2
    /\ Len(det_reqs[2]) = 1

(***************************************************************************)
(* Claims about extract_abstracts_from_xml (checked under SpecXml).        *)
(***************************************************************************)
HasText(section) == section.text # <<>>

\* "label: text" for a section with a label, the bare text otherwise.
Rendered(section) ==
    IF section.label # <<>>
    THEN section.label \o <<":", " ">> \o section.text
    ELSE section.text

\* The renderings of the sections, in order, with one space between two.
RECURSIVE SpaceJoined(_)
SpaceJoined(sections) ==
    IF sections = <<>> THEN <<>>
    ELSE IF Len(sections) = 1 THEN Rendered(sections[1])
    ELSE Rendered(sections[1]) \o <<" ">> \o SpaceJoined(Tail(sections))

\* The positions of the articles of the document that have a PMID element
\* and are not followed by another article of the same PMID.
KeptArticles ==
    {i \in 1..Len(xml_content.articles) :
        /\ xml_content.articles[i].haspmid
        /\ \A j \in (i + 1)..Len(xml_content.articles) :
              ~(/\ xml_content.articles[j].haspmid
                /\ xml_content.articles[j].pmid = xml_content.articles[i].pmid)}

\* C20: the dictionary returned for a document that parses has exactly the
\* PMIDs of the document's articles as keys, and maps each to the renderings
\* of the article's sections that have text, in document order, joined by
\* single spaces: "label: text" for a labelled section, the bare text
\* otherwise; an article without any text maps to the empty string.
C20_XmlAbstractRendering ==
    (xml_pc = "returned" /\ xml_content.wellformed) =>
        /\ DOMAIN xml_abstracts =
              {xml_content.articles[i].pmid : i \in KeptArticles}
        /\ \A i \in KeptArticles :
              LET a == xml_content.articles[i] IN
                /\ xml_abstracts[a.pmid] = SpaceJoined(SelectSeq(a.sections, HasText))
                /\ (\A k \in 1..Len(a.sections) : ~HasText(a.sections[k]))
                      => xml_abstracts[a.pmid] = <<>>

\* A document whose second article has the sections Bg (text A) and Mt
\* (text B), and whose first has a labelled section, one without text and a
\* bare one.
C20_Witness ==
    /\ xml_pc = "returned"
    /\ xml_content.wellformed
    /\ Len(xml_content.articles) = 2
    /\ IdAt(2) \in DOMAIN xml_abstracts
    /\ xml_abstracts[IdAt(2)] = <<"B", "g", ":", " ", "A", " ", "M", "t", ":", " ", "B">>
    /\ xml_abstracts[IdAt(1)] = <<"L", "1", ":", " ", "t", "1", " ", "t", "3">>

(***************************************************************************)
(* Claims about run_crawler (checked under SpecCrawler).                   *)
(***************************************************************************)

\* C16: a run that has written its output ran the stages in the order
\* paginator, metadata, abstracts, citation enrichment, keyword filter,
\* saving, and every record of the output has citation_count and
\* citation_source.
C16_StagesIncludeCitations ==
    (run_pc = "returned" /\ run_output.written) =>
        /\ run_stages = <<"get_all_pubmed_ids", "fetch_article_details", "fetch_abstracts",
                          "enrich_articles_with_citations", "filter_articles_by_keywords",
                          "save_results_to_json">>
        /\ \A k \in 1..Len(run_output.articles) :
              {"citation_count", "citation_source"} \subseteq DOMAIN run_output.articles[k]


\* C29: when get_all_pubmed_ids returns no identifier (failed probe, zero
\* matches, a cap of 0, a first page that gave nothing), run_crawler returns
\* as its next step, without an exception, and the run has issued no
\* metadata, abstract or citation request and has written no output file.
C29_EmptyResultEndsRun ==
    /\ []((ids_pc = "returned" /\ ids_ret = <<>>) =>
             /\ run_pc \in {"ids", "returned"}
             /\ det_pc = "idle" /\ det_reqs = <<>>
             /\ abs_pc = "idle" /\ abs_xml_reqs = <<>> /\ abs_text_reqs = <<>>
             /\ cit_pc = "idle" /\ cit_queried = <<>>
             /\ ~run_output.written)
    /\ [][(ids_pc = "returned" /\ ids_ret = <<>> /\ run_pc = "ids")
            => (run_pc' = "returned" /\ fw_gets' = fw_gets)]_vars

\* The run has ended on a cap of 0 although the server holds an identifier.
C29_Witness ==
    /\ run_pc = "returned"
    /\ ids_pc = "returned"
    /\ ids_ret = <<>>
    /\ srv_total = 1
    /\ arg_max_articles = 0
    /\ ~run_output.written

(***************************************************************************)
(* Claims about filter_articles_by_keywords (checked under SpecFilter).    *)
(***************************************************************************)

\* The records of the list that have a keyword in their title or a keyword
\* in their abstract, in the order of the list.
RECURSIVE WithKeywordInTitleOrAbstract(_, _)
WithKeywordInTitleOrAbstract(records, keywords) ==
    IF records = <<>> THEN <<>>
    ELSE (IF \/ ContainsAnyKeyword(records[1].title, keywords)
             \/ ContainsAnyKeyword(records[1].abstract, keywords)
          THEN <<records[1]>>
          ELSE <<>>)
         \o WithKeywordInTitleOrAbstract(Tail(records), keywords)

\* C30 as stated: filter_articles_by_keywords returns, in input order and
\* unmodified, exactly the records for which a keyword occurs, whatever the
\* case of its letters, in the title or in the abstract; a record with no
\* keyword in its title and none in its abstract is never returned.
C30_KeywordInTitleOrAbstract ==
    flt_pc = "returned" =>
        relevant_articles = WithKeywordInTitleOrAbstract(flt_articles, flt_keywords)

(***************************************************************************)
(* Claims about the fields the stages write (checked under SpecStages).    *)
(***************************************************************************)

\* The positions two lists of records share.
Shared(l1, l2) == 1..Min(Len(l1), Len(l2))

\* The keys of the two fields the enrichment sets.
CitationFields == {"citation_count", "citation_source"}

\* The record r restricted to the keys other than the two citation fields.
WithoutCitation(r) == [f \in (DOMAIN r) \ CitationFields |-> r[f]]

\* The records of `out` are records of `l`, unmodified and in the order of l.
RECURSIVE IsSubsequence(_, _)
IsSubsequence(out, l) ==
    IF out = <<>> THEN TRUE
    ELSE IF l = <<>> THEN FALSE
    ELSE IF out[1] = l[1] THEN IsSubsequence(Tail(out), Tail(l))
    ELSE IsSubsequence(out, Tail(l))

\* C22: every record fetch_article_details emits has an empty abstract;
\* fetch_abstracts changes no field but abstract and keeps the number and
\* the order of the records; no step of another stage (metadata, citation
\* enrichment, keyword filter and saving) changes the abstract of a record.
C22_AbstractWrittenOnlyByFetchAbstracts ==
    /\ []((det_pc # "idle" /\ abs_pc = "idle") =>
             \A k \in 1..Len(articles) : articles[k].abstract = <<>>)
    /\ [](abs_pc # "idle" =>
             /\ Len(articles) = Len(abs_in)
             /\ \A k \in 1..Len(articles) :
                   articles[k] = [abs_in[k] EXCEPT !.abstract = articles[k].abstract])
    /\ [](cit_pc # "idle" =>
             /\ Len(articles) = Len(cit_in)
             /\ \A k \in 1..Len(articles) : articles[k].abstract = cit_in[k].abstract)
    /\ [](run_output.written => IsSubsequence(run_output.articles, articles))
    /\ [][(\E k \in Shared(articles, articles') :
               articles'[k].abstract # articles[k].abstract)
            => (abs_pc \in {"rec", "text"} /\ Len(articles') = Len(articles))]_vars

\* A run has fetched one record, filled its abstract and written it to the
\* output.
C22_Witness ==
    /\ run_pc = "returned"
    /\ run_output.written
    /\ Len(run_output.articles) = 1
    /\ Len(articles) = 1
    /\ articles[1].abstract # <<>>
    /\ abs_in[1].abstract = <<>>

\* C23: enrich_articles_with_citations changes, for each record, only
\* citation_count and citation_source (pmid, title, journal, pub_date, doi,
\* url, authors and abstract stay as passed), keeps the number and the order
\* of the records, and no other stage writes the two fields.
C23_CitationFieldsWrittenOnlyByEnrichment ==
    /\ [](cit_pc # "idle" =>
             /\ Len(articles) = Len(cit_in)
             /\ \A k \in 1..Len(articles) : WithoutCitation(articles[k]) = cit_in[k])
    /\ [](cit_pc = "idle" =>
             /\ \A k \in 1..Len(articles) : DOMAIN articles[k] \cap CitationFields = {}
             /\ \A k \in 1..Len(run_output.articles) :
                   DOMAIN run_output.articles[k] \cap CitationFields = {})
    /\ [][(\E k \in Shared(articles, articles') :
               /\ DOMAIN articles'[k] \cap CitationFields # {}
               /\ articles'[k] # articles[k])
            => cit_pc \in {"next", "A", "X", "B", "C"}]_vars

\* The enrichment has returned for two records with a DOI: the first got a
\* count, the second none.
C23_Witness ==
    /\ cit_pc = "returned"
    /\ Len(articles) = 2
    /\ articles[1].doi = ADoi
    /\ articles[1].citation_count = 7
    /\ articles[1].citation_source = "semantic_scholar"
    /\ articles[2].doi = ADoi
    /\ articles[2].citation_source = "none"

====
